---------------------------- MODULE Spec2Model ----------------------------
(***************************************************************************)
(* The AT session multiplexer of at-webserver (src/client.rs): the actor   *)
(* that owns the modem transport, the command intake it serves, the URC    *)
(* channel and the URC worker that drains it (src/client.rs,               *)
(* src/handlers.rs), and the transport (src/connection.rs) with a modem    *)
(* behind it.                                                              *)
(*                                                                         *)
(* Text is modelled as sequences of one-character strings, so that the     *)
(* framer and the predicates of the source (trim, contains, starts_with)   *)
(* are computed on the characters.                                         *)
(***************************************************************************)
EXTENDS Integers, Sequences, FiniteSets, TLC

(***************************************************************************)
(* Bounds of the model.                                                    *)
(***************************************************************************)
\* commands submitted by external callers (gateway, schedule, dial)
MaxExt == 2
\* unsolicited lines the modem emits in a run with external callers and faults
FewUrc == 1
\* unsolicited lines the modem emits in a run of unsolicited lines alone
MaxUrc == 3
\* transport faults (end-of-stream, I/O error) the environment injects
MaxFaults == 1
\* capacity of the URC channel, mpsc::channel::<String>(100), scaled down
UrcCap == 1
\* read windows of 1 s that fit in the 10 s deadline, scaled down
TimeoutWindows == 1

\* capacity of the command intake, mpsc::channel(32)
IntakeCap == 32
\* messages the broadcast ring keeps for a subscriber
BusCap == 1
\* parts.len() >= 14 in PDCPDataHandler::handle
MinPdcpFields == 14
\* seconds a partial-SMS cache entry is kept: current_time - *ts < 3600
MaxAge == 3600
\* seconds the clock advances between two looks at it
ClockStep == 1800
\* the latest clock reading of a run
MaxNow == 7200
\* the highest part number a fragment carries
MaxPart == 3
\* config.timeout of the schedule, in check intervals
SchedTimeout == 2
\* frames a WebSocket client sends on a connection
MaxFrames == 3
\* bytes placed in the line framer's buffer
MaxBuf == 5
\* the latest reading of the UTC clock while PDUs are decoded
MaxPduNow == 2
\* the bytes of an unsolicited line that the modem sends first when it sends
\* the line in two parts
PartLen == 2

(***************************************************************************)
(* Characters and text.                                                    *)
(***************************************************************************)
CR == "\r"
LF == "\n"

\* char::is_whitespace on the characters the model uses (str::trim)
IsWhitespace(c) == c \in {" ", "\t", "\n", "\r"}

\* str::starts_with
StartsWith(s, p) ==
    /\ Len(p) <= Len(s)
    /\ \A i \in 1..Len(p) : s[i] = p[i]

\* str::contains
Contains(s, p) ==
    \E k \in 0..(Len(s) - Len(p)) : \A i \in 1..Len(p) : s[k + i] = p[i]

\* str::trim: the text without its leading and trailing whitespace
Trim(s) ==
    LET keep == {i \in 1..Len(s) : ~IsWhitespace(s[i])}
    IN  IF keep = {} THEN << >>
        ELSE LET lo == CHOOSE i \in keep : \A j \in keep : i <= j
                 hi == CHOOSE i \in keep : \A j \in keep : j <= i
             IN  SubSeq(s, lo, hi)

\* the texts the source names
T_OK == <<"O", "K">>
T_ERROR == <<"E", "R", "R", "O", "R">>
T_PROMPT == <<">">>
T_AT == <<"A", "T">>
T_RING == <<"R", "I", "N", "G">>
T_CLIP == <<"+", "C", "L", "I", "P", ":">>
T_CIEV == <<"+", "C", "I", "E", "V", ":", " ", "\"", "M", "E", "S", "S", "A", "G", "E", "\"", ",", "0">>
T_CMS322 == <<"+", "C", "M", "S", " ", "E", "R", "R", "O", "R", ":", " ", "3", "2", "2">>
T_CMTI == <<"+", "C", "M", "T", "I", ":">>
T_PDCP == <<"^", "P", "D", "C", "P", "D", "A", "T", "A", "I", "N", "F", "O", ":">>
T_CERSSI == <<"^", "C", "E", "R", "S", "S", "I", ":">>
T_HCSQ == <<"^", "H", "C", "S", "Q", ":">>
T_Unknown == <<"U", "n", "k", "n", "o", "w", "n">>
T_CLIPStatus == <<"C", "L", "I", "P">>
T_CRLF == <<"\r", "\n">>
T_Timeout == <<"T", "i", "m", "e", "o", "u", "t">>
T_ConnectionClosed == <<"C", "o", "n", "n", "e", "c", "t", "i", "o", "n", " ", "c", "l", "o", "s", "e", "d">>
T_Closed == <<"C", "l", "o", "s", "e", "d">>
T_NotConnected == <<"N", "o", "t", " ", "c", "o", "n", "n", "e", "c", "t", "e", "d">>
T_FailedRead == <<"F", "a", "i", "l", "e", "d", " ", "t", "o", " ", "r", "e", "a", "d", " ", "f", "r", "o", "m", " ", "s", "t", "r", "e", "a", "m">>
T_FailedWrite == <<"F", "a", "i", "l", "e", "d", " ", "t", "o", " ", "w", "r", "i", "t", "e", " ", "t", "o", " ", "s", "t", "r", "e", "a", "m">>


(***************************************************************************)
(* The lines and commands of the model.                                    *)
(***************************************************************************)
\* commands of the external callers
C_AT == <<"A", "T">>
C_CLIPQ == <<"A", "T", "+", "C", "L", "I", "P", "?">>
ExtCmds == {C_AT, C_CLIPQ}
\* a text that is not an AT command, and the commands of the run in which the
\* modem answers with echoes, information lines and error lines
C_NoAT == <<"+", "C", "L", "I", "P", "?">>
C_CMGR5 == <<"A", "T", "+", "C", "M", "G", "R", "=", "5">>
RichCmds == {C_AT, C_NoAT, C_CMGR5}

\* commands of the URC handlers
C_CMGR == <<"A", "T", "+", "C", "M", "G", "R", "=">>
C_CMGD == <<"A", "T", "+", "C", "M", "G", "D", "=">>
C_MONSC == <<"A", "T", "^", "M", "O", "N", "S", "C">>

\* lines the modem sends
L_CMTI1 == <<"+", "C", "M", "T", "I", ":", " ", "\"", "S", "M", "\"", ",", "1">>
L_CLIP1 == <<"+", "C", "L", "I", "P", ":", " ", "1">>

\* lines the modem sends in answers: an error with its cause, a prompt that
\* names an error, a word that begins with OK, an information line
T_CME == <<"+", "C", "M", "E", " ", "E", "R", "R", "O", "R", ":", " ", "5", "0">>
T_PromptError == <<">", " ", "E", "R", "R", "O", "R">>
T_OKAY == <<"O", "K", "A", "Y">>
T_INFO == <<"+", "I", "N", "F", "O", ":", " ", "1">>

\* the unsolicited lines the modem emits
UrcLines == {T_RING, L_CMTI1}
\* a line that three handlers can handle: Call, NewSMS and Signal
L_MIXED == T_RING \o <<" ">> \o L_CMTI1 \o <<" ">> \o T_HCSQ
MixedLines == {L_MIXED}

(***************************************************************************)
(* URC classifier: MessageHandler::can_handle of the five handlers, in the *)
(* order of the registry (Call, MemoryFull, NewSMS, PDCP, Signal).         *)
(***************************************************************************)
H_Call == 1
H_MemoryFull == 2
H_NewSMS == 3
H_PDCP == 4
H_Signal == 5
NumHandlers == 5

can_handle(h, line) ==
    CASE h = H_Call -> Contains(line, T_RING) \/ Contains(line, T_CLIP)
      [] h = H_MemoryFull -> Contains(line, T_CIEV) \/ Contains(line, T_CMS322)
      [] h = H_NewSMS -> Contains(line, T_CMTI)
      [] h = H_PDCP -> StartsWith(line, T_PDCP)
      [] h = H_Signal -> Contains(line, T_CERSSI) \/ Contains(line, T_HCSQ)

\* ATClientActor::is_urc
\* a classifier that accepts no line
is_urc_never(line) == FALSE

is_urc(line) == \E h \in 1..NumHandlers : can_handle(h, line)

(***************************************************************************)
(* Line framer.  The buffer holds bytes [c: character, t: the command the  *)
(* modem sent the byte in reply to, 0 for an unsolicited byte]; t is a     *)
(* history value the program does not read.                                *)
(***************************************************************************)
Chars(b) == [i \in 1..Len(b) |-> b[i].c]

Tags(b) == {b[i].t : i \in 1..Len(b)}

HasLF(b) == \E i \in 1..Len(b) : b[i].c = LF

FirstLF(b) == CHOOSE i \in 1..Len(b) : b[i].c = LF /\ \A j \in 1..(i - 1) : b[j].c # LF

\* a framer that yields the empty lines as well
extract_next_line_empty(b) ==
    IF ~HasLF(b) THEN [found |-> FALSE, line |-> << >>, src |-> {}, rest |-> b]
    ELSE LET pos == FirstLF(b)
         IN  [found |-> TRUE, line |-> Trim(Chars(SubSeq(b, 1, pos - 1))),
              src |-> {}, rest |-> SubSeq(b, pos + 1, Len(b))]

\* extract_next_line: [found, line, src (the tags of the line's bytes), rest]
RECURSIVE extract_next_line(_)
extract_next_line(b) ==
    IF ~HasLF(b) THEN [found |-> FALSE, line |-> << >>, src |-> {}, rest |-> b]
    ELSE LET pos == FirstLF(b)
             line == Trim(Chars(SubSeq(b, 1, pos - 1)))
             rest == SubSeq(b, pos + 1, Len(b))
         IN  IF line = << >> THEN extract_next_line(rest)
             ELSE [found |-> TRUE, line |-> line,
                   src |-> Tags(SelectSeq(SubSeq(b, 1, pos - 1), LAMBDA x : ~IsWhitespace(x.c))),
                   rest |-> rest]

\* the bytes of a line the modem sends, CR LF after it
Bytes(line, t) == [i \in 1..(Len(line) + 2) |->
                    [c |-> IF i <= Len(line) THEN line[i] ELSE T_CRLF[i - Len(line)], t |-> t]]

(***************************************************************************)
(* send_command_and_wait: the expected prefix of a command.                *)
(***************************************************************************)
\* a prefix that keeps the ? or = and what follows it
expected_prefix_whole(cmd) ==
    IF StartsWith(Trim(cmd), T_AT) THEN SubSeq(Trim(cmd), 3, Len(Trim(cmd))) ELSE << >>

expected_prefix(cmd) ==
    LET clean_cmd == Trim(cmd)
    IN  IF StartsWith(clean_cmd, T_AT)
        THEN LET core == SubSeq(clean_cmd, 3, Len(clean_cmd))
                 hits == {i \in 1..Len(core) : core[i] \in {"?", "="}}
                 end == IF hits = {} THEN Len(core)
                        ELSE (CHOOSE i \in hits : \A j \in hits : i <= j) - 1
             IN  SubSeq(core, 1, end)
        ELSE << >>

\* ATResponse::ok and ATResponse::error; an Option is << >> or <<value>>
ATResponse_ok(data) == [success |-> TRUE, data |-> data, error |-> << >>]
ATResponse_error(err) == [success |-> FALSE, data |-> << >>, error |-> <<err>>]


(***************************************************************************)
(* State.                                                                  *)
(***************************************************************************)
VARIABLES
    rx,             \* the command intake (mpsc::channel(32)): ids of calls, oldest first
    calls,          \* every submitted command, by id: [cmd, from, st, resp]
    last,           \* the transaction that ended last: [id, cmd, resp, src, via, diverted]
    connection,     \* ATClientActor.connection is Some (and is_connected)
    buffer,         \* ATClientActor.buffer
    pc,             \* where the actor is
    cur,            \* the call the actor is serving, 0 when none
    response_data,  \* send_command_and_wait's response_data: [text, src, diverted]
    elapsed,        \* read windows that expired since the command was sent
    urc_q,          \* the URC channel (urc_tx / urc_rx): [line, id], oldest first
    bus,            \* the broadcast bus: the newest messages it holds
    framed,         \* lines handed to the URC channel so far (the id of the newest)
    received,       \* the id of the line the worker received last
    handled,        \* the handlers the worker invoked for its line: [line, hs]
    worker,         \* the URC worker: [pc, line, h, wait, stage]
    wire,           \* bytes the modem sent that the actor has not read
    modemQ,         \* commands the modem got and has not finished answering
    link,           \* the transport: "down", "up", "eof", "err"
    urcs,           \* unsolicited lines the modem has emitted
    faults,         \* transport faults so far
    budget,         \* the run: [ext, urc, faults, lines, cap, rich, split]
    urc_part,       \* the rest of an unsolicited line the modem has sent the first part of
    sms_cache,      \* PARTIAL_SMS_CACHE: key -> [count, parts, ts]
    sms_now,        \* SystemTime::now() in seconds since the epoch
    sms_out,        \* the notifications of the process_sms call that returned last
    sms_last,       \* the SMS that call was given
    sched_cfg,      \* ScheduleConfig
    sched_clock,    \* Local::now().time(), minutes since midnight
    sched_pc,       \* where monitor_loop is
    sched_step,     \* the step of the command sequence it is at
    sched_current,  \* current_mode
    sched_target,   \* target_mode of the tick
    sched_since,    \* last_service_time.elapsed(), in check intervals
    sched_log,      \* the command sequence of the tick: [kind, mode, cmds]
    sched_runs,     \* set_frequency_lock calls since the target mode changed
    dial_pdp,       \* config.advanced_network_config.pdp_type
    dial_pc,        \* where start_monitor is
    dial_step,      \* the command of the sequence it is at
    is_connected,   \* start_monitor's is_connected
    dial_tick,      \* the tick: [ip, was] what it found and what is_connected was
    dial_log,       \* what the tick submitted and called after the check
    dial_setup,     \* how the last setup_modem_network call ended
    gw_key,         \* the configured auth key (Option<String>)
    gw_pc,          \* where handle_client is: "auth", "loop", "wait", "closed"
    gw_first,       \* what the connection's first read gave, once it has
    gw_sub,         \* the commands handle_client sent to the multiplexer
    gw_out,         \* the message it sent to the client last
    gw_seen,        \* frames it has taken from the client
    fr_in,          \* the bytes placed in the framer's buffer
    fr_buf,         \* the framer's buffer
    fr_out,         \* the lines extract_next_line has yielded
    fr_none,        \* the last call returned none
    pdu_in,         \* the PDU hex string given to read_incoming_sms
    pdu_now,        \* the UTC clock
    pdu_first,      \* the result of the first decoding
    pdu_again       \* the result of the latest decoding after it

smsVars == <<sms_cache, sms_now, sms_out, sms_last>>
schedVars == <<sched_cfg, sched_clock, sched_pc, sched_step, sched_current, sched_target,
               sched_since, sched_log, sched_runs>>
dialVars == <<dial_pdp, dial_pc, dial_step, is_connected, dial_tick, dial_log, dial_setup>>
gwVars == <<gw_key, gw_pc, gw_first, gw_sub, gw_out, gw_seen>>
frVars == <<fr_in, fr_buf, fr_out, fr_none>>
pduVars == <<pdu_in, pdu_now, pdu_first, pdu_again>>
sideVars == <<smsVars, schedVars, dialVars, gwVars, frVars, pduVars>>

vars == <<rx, calls, last, connection, buffer, pc, cur, response_data, elapsed,
          urc_q, bus, framed, received, worker, handled,
          wire, modemQ, link, urcs, faults, budget, urc_part, sideVars>>

muxVars == <<rx, calls, last, connection, buffer, pc, cur, response_data, elapsed,
             urc_q, bus, framed, received, worker, handled,
             wire, modemQ, link, urcs, faults, budget, urc_part>>

notSms == <<muxVars, schedVars, dialVars, gwVars, frVars, pduVars>>
notSched == <<muxVars, smsVars, dialVars, gwVars, frVars, pduVars>>
notDial == <<muxVars, smsVars, schedVars, gwVars, frVars, pduVars>>
notGw == <<muxVars, smsVars, schedVars, dialVars, frVars, pduVars>>
notFr == <<muxVars, smsVars, schedVars, dialVars, gwVars, pduVars>>
notPdu == <<muxVars, smsVars, schedVars, dialVars, gwVars, frVars>>

actorVars == <<connection, buffer, pc, cur, response_data, elapsed>>
urcVars == <<urc_q, bus, framed, received>>
workerVars == <<worker, handled>>
envVars == <<wire, modemQ, link, urcs, faults, budget, urc_part, sideVars>>

\* the runs of the model: callers alone; one caller and unsolicited lines; callers
\* and transport faults; unsolicited lines and transport faults; unsolicited lines
\* alone, enough of them to fill the URC channel; unsolicited lines that several
\* handlers can handle; unsolicited lines and a URC channel with room for them
\* (cap is the capacity of the URC channel in the run); answers of several
\* forms (rich); one caller and an unsolicited line that the modem sends in
\* two parts (split)
Scenarios ==
    {[ext |-> MaxExt, urc |-> 0, faults |-> 0, lines |-> UrcLines, cap |-> UrcCap, rich |-> FALSE, split |-> FALSE],
     [ext |-> 1, urc |-> FewUrc, faults |-> 0, lines |-> UrcLines, cap |-> UrcCap, rich |-> FALSE, split |-> FALSE],
     [ext |-> MaxExt - 1, urc |-> 0, faults |-> MaxFaults, lines |-> UrcLines, cap |-> UrcCap, rich |-> FALSE, split |-> FALSE],
     [ext |-> 0, urc |-> FewUrc, faults |-> MaxFaults, lines |-> UrcLines, cap |-> UrcCap, rich |-> FALSE, split |-> FALSE],
     [ext |-> 0, urc |-> MaxUrc, faults |-> 0, lines |-> UrcLines, cap |-> UrcCap, rich |-> FALSE, split |-> FALSE],
     [ext |-> 0, urc |-> FewUrc, faults |-> 0, lines |-> MixedLines, cap |-> UrcCap, rich |-> FALSE, split |-> FALSE],
     [ext |-> 0, urc |-> FewUrc + 1, faults |-> 0, lines |-> UrcLines, cap |-> UrcCap + 1, rich |-> FALSE, split |-> FALSE],
     [ext |-> 1, urc |-> 0, faults |-> 0, lines |-> {}, cap |-> UrcCap, rich |-> TRUE, split |-> FALSE],
     [ext |-> 1, urc |-> FewUrc, faults |-> 0, lines |-> {T_RING}, cap |-> UrcCap, rich |-> FALSE,
      split |-> TRUE]}

NoResponse == [text |-> << >>, src |-> {}, diverted |-> 0]
NoTransaction ==
    [id |-> 0, cmd |-> << >>, resp |-> << >>, src |-> {}, via |-> "none", diverted |-> 0]
NothingHandled == [line |-> << >>, hs |-> << >>]
WorkerIdle == [pc |-> "recv", line |-> << >>, h |-> 0, wait |-> 0, stage |-> 0]

\* the multiplexer, its worker and the modem before the actor's first connect,
\* in run b
MuxStart(b) ==
    /\ rx = << >>
    /\ calls = << >>
    /\ last = NoTransaction
    /\ connection = FALSE
    /\ buffer = << >>
    /\ pc = "Disconnected"
    /\ cur = 0
    /\ response_data = NoResponse
    /\ elapsed = 0
    /\ urc_q = << >>
    /\ bus = << >>
    /\ framed = 0
    /\ received = 0
    /\ handled = NothingHandled
    /\ worker = WorkerIdle
    /\ wire = << >>
    /\ modemQ = << >>
    /\ link = "down"
    /\ urcs = 0
    /\ faults = 0
    /\ budget = b
    /\ urc_part = << >>

\* a run in which the multiplexer is left alone
NoRun == [ext |-> 0, urc |-> 0, faults |-> 0, lines |-> {}, cap |-> UrcCap, rich |-> FALSE, split |-> FALSE]

\* PARTIAL_SMS_CACHE after get_or_init, and no process_sms call so far
SmsStart ==
    /\ sms_cache = {}
    /\ sms_now = 0
    /\ sms_out = << >>
    /\ sms_last = << >>

\* no sequence of the schedule controller so far
NoSequence == [kind |-> "none", mode |-> << >>, cmds |-> << >>]

\* monitor_loop before its first tick, with ScheduleConfig c
SchedStart(c) ==
    /\ sched_cfg = c
    /\ sched_clock = 0
    /\ sched_pc = "tick"
    /\ sched_step = 0
    /\ sched_current = << >>
    /\ sched_target = << >>
    /\ sched_since = 0
    /\ sched_log = NoSequence
    /\ sched_runs = 0

\* a schedule that is not enabled: monitor_loop returns at once
ScheduleOff == [enabled |-> FALSE]

\* start_monitor before its first tick, with pdp_type p
DialStart(p) ==
    /\ dial_pdp = p
    /\ dial_pc = "tick"
    /\ dial_step = 0
    /\ is_connected = FALSE
    /\ dial_tick = [ip |-> FALSE, was |-> FALSE]
    /\ dial_log = << >>
    /\ dial_setup = "none"

T_ipv4v6 == <<"i", "p", "v", "4", "v", "6">>

\* handle_client when the socket is upgraded, with auth key k (none or one)
GwStart(k) ==
    /\ gw_key = k
    /\ gw_pc = IF k = << >> THEN "loop" ELSE "auth"
    /\ gw_first = << >>
    /\ gw_sub = << >>
    /\ gw_out = << >>
    /\ gw_seen = 0

\* a framer with the bytes b in its buffer
FrStart(b) ==
    /\ fr_in = b
    /\ fr_buf = b
    /\ fr_out = << >>
    /\ fr_none = FALSE

\* a PDU p to decode, nothing decoded yet
PduStart(p) ==
    /\ pdu_in = p
    /\ pdu_now = 0
    /\ pdu_first = << >>
    /\ pdu_again = << >>

PureStart == FrStart(<< >>) /\ PduStart(<< >>)

SideStart ==
    SmsStart /\ SchedStart(ScheduleOff) /\ DialStart(T_ipv4v6) /\ GwStart(<< >>) /\ PureStart

Init == \E b \in Scenarios : MuxStart(b) /\ SideStart

(***************************************************************************)
(* Callers: ATClient::send_command, schedule::send_command, the gateway,   *)
(* the handlers.  A call is queued with its one-shot.  When its            *)
(* transaction ends, last records what was written to the one-shot (resp:  *)
(* no, one or more responses), the commands whose reply lines the response *)
(* is made of (src) and how the transaction ended (via); the call keeps    *)
(* the response only while its caller, a handler, has yet to read it.      *)
(* st is queued (in the intake), taken (received by the actor), written    *)
(* (its bytes are on the transport) or ended; timedout tells an ended call *)
(* that ended by the deadline, held a call that entered the intake while   *)
(* the actor was in its connect loop.                                             *)
(***************************************************************************)
NewCall(cmd, from) ==
    [cmd |-> cmd, from |-> from, st |-> "queued", resp |-> << >>, timedout |-> FALSE,
     held |-> (pc = "Disconnected")]

\* mpsc::Sender::send: waits while the channel is full
CanSend(q, cap) == Len(q) < cap

Submit(cmd) ==
    /\ cmd \in (IF budget.rich THEN RichCmds ELSE ExtCmds)
    /\ Cardinality({i \in 1..Len(calls) : calls[i].from = "ext"}) < budget.ext
    /\ CanSend(rx, IntakeCap)
    /\ calls' = Append(calls, NewCall(cmd, "ext"))
    /\ rx' = Append(rx, Len(calls) + 1)
    /\ UNCHANGED <<last, actorVars, urcVars, workerVars, envVars>>

\* send_command_and_wait ends for call id, having written resps to reply_tx
Finish(id, resps, src, via) ==
    /\ calls' = [calls EXCEPT ![id] =
                   [cmd |-> << >>, from |-> @.from, st |-> "ended",
                    resp |-> IF @.from = "urc" THEN resps ELSE << >>,
                    timedout |-> (via = "timeout"), held |-> @.held]]
    /\ last' = [id |-> id, cmd |-> calls[id].cmd, resp |-> resps, src |-> src, via |-> via,
                diverted |-> response_data.diverted]

(***************************************************************************)
(* The actor: ATClientActor::run, connect, process_loop.                   *)
(***************************************************************************)
\* a send that puts the message in front of the queued ones
urc_send_front(q, m) == <<m>> \o q

\* urc_tx.send(line) on a channel with room: the line is the newest message
urc_send(q, m) == Append(q, m)

\* broadcast::Sender::send: never waits; the ring keeps the newest BusCap messages
bus_send(b, m) ==
    LET all == Append(b, m)
    IN  IF Len(all) > BusCap THEN SubSeq(all, Len(all) - BusCap + 1, Len(all)) ELSE all

\* json!({"type": "raw_data", "data": line})
RawData(line) == [type |-> "raw_data", data |-> line]

\* a send that queues the line twice
ToUrcChannel_twice(line) ==
    /\ CanSend(urc_q, budget.cap)
    /\ urc_q' = urc_send(urc_send(urc_q, [line |-> line, id |-> framed + 1]),
                         [line |-> line, id |-> framed + 2])
    /\ framed' = framed + 2
    /\ UNCHANGED received

\* urc_tx.send(line).await: waits for room, then the line is queued
ToUrcChannel(line) ==
    /\ CanSend(urc_q, budget.cap)
    /\ urc_q' = urc_send(urc_q, [line |-> line, id |-> framed + 1])
    /\ framed' = framed + 1
    /\ UNCHANGED received

\* if let Some(tx) = WS_BROADCASTER.get() { tx.send(raw_data) }
Broadcast_skip(line) == UNCHANGED bus

\* tx.send(ws_msg) of the raw_data message of a line, when the broadcaster is set
Broadcast(line) == bus' = bus_send(bus, RawData(line))

\* a receive that takes the newest queued call
recv_newest(q) == [item |-> q[Len(q)], rest |-> SubSeq(q, 1, Len(q) - 1)]

\* rx.recv(): the oldest queued call and the queue without it
recv(q) == [item |-> Head(q), rest |-> Tail(q)]

\* conn.receive(&mut buf): how many of the waiting bytes one read returns
ReadSizes(w) == {Len(w)}

\* a loop that never finds a line
MoreLines_never(b) == FALSE

\* while let Some(line) = extract_next_line(buffer): is there a next line
MoreLines(b) == extract_next_line(b).found

\* process_loop on Err(e) from send_command_and_wait: is the transport dropped
DropsTransport(msg) == Contains(msg, T_Closed) \/ Contains(msg, T_NotConnected)

\* run: connect succeeded; a new transport
ActorConnect ==
    /\ pc = "Disconnected"
    /\ connection' = TRUE
    /\ pc' = "Idle"
    /\ link' = "up"
    /\ wire' = << >>
    /\ UNCHANGED <<rx, calls, last, buffer, cur, response_data, elapsed, urcVars, workerVars,
                   modemQ, urcs, faults, budget, urc_part, sideVars>>

\* run: connect failed; sleep 5 s and retry
ActorConnectFail ==
    /\ pc = "Disconnected"
    /\ UNCHANGED vars

\* process_loop, select: a command arrives; send_command_and_wait starts (pre-pause)
ActorTake ==
    /\ pc = "Idle"
    /\ rx # << >>
    /\ cur' = recv(rx).item
    /\ rx' = recv(rx).rest
    /\ calls' = [calls EXCEPT ![recv(rx).item].st = "taken"]
    /\ pc' = "PreDrain"
    /\ UNCHANGED <<last, connection, buffer, response_data, elapsed, urcVars, workerVars, envVars>>

\* process_loop, select: bytes arrive while idle
ActorIdleRead ==
    /\ pc = "Idle"
    /\ link \in {"up", "eof"}
    /\ wire # << >>
    /\ \E n \in ReadSizes(wire) :
         /\ buffer' = buffer \o SubSeq(wire, 1, n)
         /\ wire' = SubSeq(wire, n + 1, Len(wire))
    /\ pc' = IF MoreLines(buffer') THEN "IdleLines" ELSE "Idle"
    /\ UNCHANGED <<rx, calls, last, connection, cur, response_data, elapsed, urcVars, workerVars,
                   modemQ, link, urcs, faults, budget, urc_part, sideVars>>

\* process_buffer_lines: one line; a URC line goes to the URC channel
ActorIdleLine ==
    /\ pc = "IdleLines"
    /\ LET e == extract_next_line(buffer)
       IN  /\ IF is_urc(e.line)
              THEN ToUrcChannel(e.line) /\ Broadcast(e.line)
              ELSE UNCHANGED urcVars
           /\ buffer' = e.rest
           /\ pc' = IF MoreLines(e.rest) THEN "IdleLines" ELSE "Idle"
    /\ UNCHANGED <<rx, calls, last, connection, cur, response_data, elapsed, workerVars, envVars>>

\* process_loop, select: receive returns 0 or an error while idle
ActorIdleLost ==
    /\ pc = "Idle"
    /\ link = "err" \/ (link = "eof" /\ wire = << >>)
    /\ connection' = FALSE
    /\ pc' = "Disconnected"
    /\ UNCHANGED <<rx, calls, last, buffer, cur, response_data, elapsed, urcVars, workerVars, envVars>>


(***************************************************************************)
(* The transaction: ATClientActor::send_command_and_wait.                  *)
(***************************************************************************)
\* what the modem may answer to a command, line by line
Scripts(cmd) ==
    IF budget.rich
    THEN IF cmd = C_NoAT THEN {<<L_CLIP1, T_OK>>}
         ELSE IF cmd = C_CMGR5 THEN {<<T_CMS322>>, <<T_CME>>}
         ELSE {<<cmd, T_OK>>, <<cmd, T_CME>>, <<T_PromptError>>, <<T_OKAY, T_OK>>,
               <<T_OK, T_INFO>>, <<T_INFO, T_PROMPT>>}
    ELSE IF cmd = C_CLIPQ THEN {<<L_CLIP1, T_OK>>}
    ELSE {<<T_OK>>, <<T_ERROR>>, <<T_PROMPT>>}

\* a deadline that is one read window late
Expired_late(e) == e > TimeoutWindows

\* start.elapsed() > timeout_dur
Expired(e) == e >= TimeoutWindows

\* a reading that lets URC lines into the response
Classify_no_urc(line, prefix) ==
    IF line = T_OK THEN "ok"
    ELSE IF Contains(line, T_ERROR) THEN "error"
    ELSE IF StartsWith(line, T_PROMPT) THEN "prompt"
    ELSE "body"

\* a reading that looks for the prompt before the error
Classify_prompt_first(line, prefix) ==
    LET is_my_response == prefix # << >> /\ StartsWith(line, prefix)
    IN  IF is_urc(line) /\ ~is_my_response THEN "urc"
        ELSE IF line = T_OK THEN "ok"
        ELSE IF StartsWith(line, T_PROMPT) THEN "prompt"
        ELSE IF Contains(line, T_ERROR) THEN "error"
        ELSE "body"

\* a reading that looks for the error before the URC
Classify_error_first(line, prefix) ==
    LET is_my_response == prefix # << >> /\ StartsWith(line, prefix)
    IN  IF line = T_OK THEN "ok"
        ELSE IF Contains(line, T_ERROR) THEN "error"
        ELSE IF is_urc(line) /\ ~is_my_response THEN "urc"
        ELSE IF StartsWith(line, T_PROMPT) THEN "prompt"
        ELSE "body"

\* the await loop's reading of one line
Classify(line, prefix) ==
    LET is_my_response == prefix # << >> /\ StartsWith(line, prefix)
    IN  IF is_urc(line) /\ ~is_my_response THEN "urc"
        ELSE IF line = T_OK THEN "ok"
        ELSE IF Contains(line, T_ERROR) THEN "error"
        ELSE IF StartsWith(line, T_PROMPT) THEN "prompt"
        ELSE "body"

\* a success that leaves the terminator out
push_ok_nothing(text) == text

\* response_data.push_str("OK")
push_ok(text) == text \o T_OK

\* send_command_and_wait returns Ok(()) (err = << >>) or Err(e) (err = <<e.to_string()>>)
\* to process_loop, which drops the transport or goes on
Return(err) ==
    /\ cur' = 0
    /\ response_data' = NoResponse
    /\ elapsed' = 0
    /\ IF err # << >> /\ DropsTransport(err[1])
       THEN connection' = FALSE /\ pc' = "Disconnected"
       ELSE connection' = connection /\ pc' = "Idle"

\* pre-drain: short reads until none returns bytes
ActorPreDrain ==
    /\ pc = "PreDrain"
    /\ buffer' = IF link = "err" THEN buffer ELSE buffer \o wire
    /\ wire' = << >>
    /\ pc' = IF MoreLines(buffer') THEN "DrainLines" ELSE "Send"
    /\ UNCHANGED <<rx, calls, last, connection, cur, response_data, elapsed, urcVars, workerVars,
                   modemQ, link, urcs, faults, budget, urc_part, sideVars>>

\* pre-drain: one drained line; a URC line goes to the URC channel
ActorDrainLine ==
    /\ pc = "DrainLines"
    /\ LET e == extract_next_line(buffer)
       IN  /\ IF is_urc(e.line)
              THEN ToUrcChannel(e.line) /\ UNCHANGED bus
              ELSE UNCHANGED urcVars
           /\ buffer' = e.rest
           /\ pc' = IF MoreLines(e.rest) THEN "DrainLines" ELSE "Send"
    /\ UNCHANGED <<rx, calls, last, connection, cur, response_data, elapsed, workerVars, envVars>>

\* buffer.clear(); conn.send(clean_cmd); conn.send("\r\n"): written
ActorSend ==
    /\ pc = "Send"
    /\ link # "err"
    /\ buffer' = << >>
    /\ calls' = [calls EXCEPT ![cur].st = "written"]
    /\ modemQ' = IF link = "up"
                 THEN Append(modemQ, [id |-> cur, started |-> FALSE, todo |-> << >>])
                 ELSE modemQ
    /\ pc' = "Await"
    /\ elapsed' = 0
    /\ response_data' = NoResponse
    /\ UNCHANGED <<rx, last, connection, cur, urcVars, workerVars, wire, link, urcs, faults, budget, urc_part, sideVars>>

\* buffer.clear(); conn.send fails: the ? returns the error, nothing is written
\* to the one-shot
ActorSendError ==
    /\ pc = "Send"
    /\ link = "err"
    /\ buffer' = << >>
    /\ Finish(cur, << >>, {}, "writeerr")
    /\ Return(<<T_FailedWrite>>)
    /\ UNCHANGED <<rx, urcVars, workerVars, envVars>>

\* await loop: the deadline has passed
ActorTimeout ==
    /\ pc = "Await"
    /\ Expired(elapsed)
    /\ Finish(cur, <<ATResponse_error(T_Timeout)>>, {}, "timeout")
    /\ Return(<< >>)
    /\ UNCHANGED <<rx, buffer, urcVars, workerVars, envVars>>

\* await loop: a read window of 1 s passes with no bytes
ActorAwaitWindow ==
    /\ pc = "Await"
    /\ ~Expired(elapsed)
    /\ link = "up"
    /\ wire = << >>
    /\ elapsed' = elapsed + 1
    /\ UNCHANGED <<rx, calls, last, connection, buffer, pc, cur, response_data, urcVars, workerVars,
                   envVars>>

\* await loop: a read returns bytes
ActorAwaitRead ==
    /\ pc = "Await"
    /\ ~Expired(elapsed)
    /\ link \in {"up", "eof"}
    /\ wire # << >>
    /\ \E n \in ReadSizes(wire) :
         /\ buffer' = buffer \o SubSeq(wire, 1, n)
         /\ wire' = SubSeq(wire, n + 1, Len(wire))
    /\ pc' = IF MoreLines(buffer') THEN "AwaitLines" ELSE "Await"
    /\ UNCHANGED <<rx, calls, last, connection, cur, response_data, elapsed, urcVars, workerVars,
                   modemQ, link, urcs, faults, budget, urc_part, sideVars>>

\* await loop: a read returns 0: "Connection closed" to the caller, bail!("Closed")
ActorAwaitEOF ==
    /\ pc = "Await"
    /\ ~Expired(elapsed)
    /\ link = "eof"
    /\ wire = << >>
    /\ Finish(cur, <<ATResponse_error(T_ConnectionClosed)>>, {}, "eof")
    /\ Return(<<T_Closed>>)
    /\ UNCHANGED <<rx, buffer, urcVars, workerVars, envVars>>

\* await loop: a read fails: e.to_string() to the caller, return Err(e)
ActorAwaitReadError ==
    /\ pc = "Await"
    /\ ~Expired(elapsed)
    /\ link = "err"
    /\ Finish(cur, <<ATResponse_error(T_FailedRead)>>, {}, "readerr")
    /\ Return(<<T_FailedRead>>)
    /\ UNCHANGED <<rx, buffer, urcVars, workerVars, envVars>>

\* await loop: one line of what was read
ActorAwaitLine ==
    /\ pc = "AwaitLines"
    /\ LET e == extract_next_line(buffer)
           kind == Classify(e.line, expected_prefix(calls[cur].cmd))
           text == IF kind = "ok" THEN push_ok(response_data.text)
                   ELSE response_data.text \o e.line
           src == response_data.src \cup e.src
       IN  /\ buffer' = e.rest
           /\ CASE kind = "urc" ->
                    /\ ToUrcChannel(e.line)
                    /\ Broadcast(e.line)
                    /\ pc' = IF MoreLines(e.rest) THEN "AwaitLines" ELSE "Await"
                    /\ response_data' = [response_data EXCEPT !.diverted = @ + 1]
                    /\ UNCHANGED <<calls, last, connection, cur, elapsed>>
                [] kind = "ok" ->
                    /\ Finish(cur, <<ATResponse_ok(<<text>>)>>, src, "ok")
                    /\ Return(<< >>)
                    /\ UNCHANGED urcVars
                [] kind = "error" ->
                    /\ Finish(cur, <<ATResponse_error(text)>>, src, "error")
                    /\ Return(<< >>)
                    /\ UNCHANGED urcVars
                [] kind = "prompt" ->
                    /\ Finish(cur, <<ATResponse_ok(<<text>>)>>, src, "prompt")
                    /\ Return(<< >>)
                    /\ UNCHANGED urcVars
                [] kind = "body" ->
                    /\ response_data' = [response_data EXCEPT !.text = text \o T_CRLF, !.src = src]
                    /\ pc' = IF MoreLines(e.rest) THEN "AwaitLines" ELSE "Await"
                    /\ UNCHANGED <<calls, last, connection, cur, urcVars, elapsed>>
    /\ UNCHANGED <<rx, workerVars, envVars>>


(***************************************************************************)
(* The URC worker (ATClientActor::new) and the handlers that submit        *)
(* commands (NewSMSHandler::handle, NetworkSignalHandler::handle).         *)
(***************************************************************************)
Digits == {"0", "1", "2", "3", "4", "5", "6", "7", "8", "9"}
WordChars == Digits \cup {"_"} \cup
    {"A", "B", "C", "D", "E", "F", "G", "H", "I", "J", "K", "L", "M",
     "N", "O", "P", "Q", "R", "S", "T", "U", "V", "W", "X", "Y", "Z"} \cup
    {"a", "b", "c", "d", "e", "f", "g", "h", "i", "j", "k", "l", "m",
     "n", "o", "p", "q", "r", "s", "t", "u", "v", "w", "x", "y", "z"}
SpaceChars == {" ", "\t", "\n", "\r"}

\* the last index of the longest run of characters of S that starts at i (i - 1: no run)
RunEnd(s, i, S) ==
    LET ok == {j \in (i - 1)..Len(s) : \A m \in i..j : s[m] \in S}
    IN  CHOOSE j \in ok : \A m \in ok : m <= j

\* the regex \+CMTI: "(\w+)",\s*(\d+) matched at index k: its second group, << >> if no match
CmtiAt(s, k) ==
    LET p == T_CMTI \o <<" ", "\"">>
        a == RunEnd(s, k + Len(p), WordChars)
        b == RunEnd(s, a + 3, SpaceChars)
        d == RunEnd(s, b + 1, Digits)
    IN  IF /\ StartsWith(SubSeq(s, k, Len(s)), p)
           /\ a >= k + Len(p)
           /\ a + 2 <= Len(s)
           /\ s[a + 1] = "\""
           /\ s[a + 2] = ","
           /\ d >= b + 1
        THEN SubSeq(s, b + 1, d)
        ELSE << >>

\* RE_CMTI.captures(line), group 2: the leftmost match
CmtiIndex(s) ==
    LET ks == {k \in 1..Len(s) : CmtiAt(s, k) # << >>}
    IN  IF ks = {} THEN << >> ELSE CmtiAt(s, CHOOSE k \in ks : \A m \in ks : k <= m)

\* the command a handler submits first for a line: << >> or <<cmd>>
HandlerCommand(h, line) ==
    IF h = H_NewSMS /\ CmtiIndex(line) # << >> THEN <<C_CMGR \o CmtiIndex(line)>>
    ELSE IF h = H_Signal THEN <<C_MONSC>>
    ELSE << >>

\* the regex \+CLIP: "([^"]+)" matched at index k: its group, << >> if no match
ClipAt(s, k) ==
    LET p == T_CLIP \o <<" ", "\"">>
        from == k + Len(p)
        closing == {j \in (from + 1)..Len(s) : s[j] = "\"" /\ \A m \in from..(j - 1) : s[m] # "\""}
    IN  IF StartsWith(SubSeq(s, k, Len(s)), p) /\ closing # {}
        THEN SubSeq(s, from, (CHOOSE j \in closing : TRUE) - 1)
        ELSE << >>

\* RE_CLIP.captures(line), group 1: the leftmost match
ClipNumber(s) ==
    LET ks == {k \in 1..Len(s) : ClipAt(s, k) # << >>}
    IN  IF ks = {} THEN << >> ELSE ClipAt(s, CHOOSE k \in ks : \A m \in ks : k <= m)

\* the text after "^PDCPDATAINFO:" when it has 14 comma-separated fields or more
PdcpFields(s) ==
    LET rest == SubSeq(s, Len(T_PDCP) + 1, Len(s))
    IN  IF StartsWith(s, T_PDCP) /\ Cardinality({i \in 1..Len(rest) : rest[i] = ","}) >= MinPdcpFields - 1
        THEN <<rest>>
        ELSE << >>

\* what a handler publishes on the broadcast bus for a line without submitting
\* a command: CallHandler::handle and PDCPDataHandler::handle
HandlerEvents(h, line) ==
    IF h = H_Call /\ Contains(line, T_RING)
    THEN <<[type |-> "incoming_call", number |-> T_Unknown, status |-> T_RING] >>
    ELSE IF h = H_Call /\ Contains(line, T_CLIP) /\ ClipNumber(line) # << >>
    THEN <<[type |-> "incoming_call", number |-> ClipNumber(line), status |-> T_CLIPStatus] >>
    ELSE IF h = H_PDCP /\ PdcpFields(line) # << >>
    THEN <<[type |-> "pdcp_data", fields |-> PdcpFields(line)[1]] >>
    ELSE << >>

\* a for loop that stops after the first handler that can handle the line
NextHandler_break(w, h) ==
    LET hs == {k \in (h + 1)..NumHandlers : can_handle(k, w.line)}
    IN  IF hs = {} \/ h # 0 THEN WorkerIdle
        ELSE [w EXCEPT !.pc = "dispatch", !.h = CHOOSE k \in hs : \A m \in hs : k <= m,
                       !.wait = 0, !.stage = 0]

\* the for loop over the handlers: the next handler after h whose can_handle
\* holds for the worker's line, or back to urc_rx.recv() when there is none
NextHandler(w, h) ==
    LET hs == {k \in (h + 1)..NumHandlers : can_handle(k, w.line)}
    IN  IF hs = {} THEN WorkerIdle
        ELSE [w EXCEPT !.pc = "dispatch", !.h = CHOOSE k \in hs : \A m \in hs : k <= m,
                       !.wait = 0, !.stage = 0]

\* urc_rx.recv(), and the for loop up to the first handler that can handle the line
WorkerRecv ==
    /\ worker.pc = "recv"
    /\ urc_q # << >>
    /\ worker' = NextHandler([WorkerIdle EXCEPT !.line = recv(urc_q).item.line], 0)
    /\ urc_q' = recv(urc_q).rest
    /\ received' = recv(urc_q).item.id
    /\ handled' = [line |-> recv(urc_q).item.line, hs |-> << >>]
    /\ UNCHANGED <<rx, calls, last, bus, framed, actorVars, envVars>>

\* handler.handle(line) of a handler that can handle it, up to its first command
WorkerHandle ==
    /\ worker.pc = "dispatch"
    /\ LET c == HandlerCommand(worker.h, worker.line)
       IN  IF c # << >>
           THEN /\ CanSend(rx, IntakeCap)
                /\ calls' = Append(calls, NewCall(c[1], "urc"))
                /\ rx' = Append(rx, Len(calls) + 1)
                /\ worker' = [worker EXCEPT !.pc = "wait", !.wait = Len(calls) + 1, !.stage = 1]
                /\ UNCHANGED bus
           ELSE /\ worker' = NextHandler(worker, worker.h)
                /\ bus' = IF HandlerEvents(worker.h, worker.line) = << >> THEN bus
                          ELSE bus_send(bus, HandlerEvents(worker.h, worker.line)[1])
                /\ UNCHANGED <<rx, calls>>
    /\ handled' = [handled EXCEPT !.hs = Append(@, worker.h)]
    /\ UNCHANGED <<last, urc_q, framed, received, actorVars, envVars>>

\* rx.await in a handler: the one-shot resolves (a response, or the sender dropped)
WorkerReply ==
    /\ worker.pc = "wait"
    /\ calls[worker.wait].st = "ended"
    /\ LET resp == calls[worker.wait].resp
           read == [calls EXCEPT ![worker.wait].resp = << >>]
       IN  IF /\ worker.h = H_NewSMS
              /\ worker.stage = 1
              /\ resp # << >>
              /\ resp[1].success
              /\ resp[1].data # << >>
           THEN \* the PDU is processed, then AT+CMGD=<index>
                /\ CanSend(rx, IntakeCap)
                /\ calls' = Append(read, NewCall(C_CMGD \o CmtiIndex(worker.line), "urc"))
                /\ rx' = Append(rx, Len(calls) + 1)
                /\ worker' = [worker EXCEPT !.wait = Len(calls) + 1, !.stage = 2]
           ELSE /\ worker' = NextHandler(worker, worker.h)
                /\ calls' = read
                /\ UNCHANGED rx
    /\ UNCHANGED <<last, urcVars, handled, actorVars, envVars>>

(***************************************************************************)
(* The transport and the modem behind it (ATConnection::send / receive).   *)
(***************************************************************************)
\* the modem sends the next line of its answer to the oldest command
ModemReply ==
    /\ link = "up"
    /\ modemQ # << >>
    /\ urc_part = << >>
    /\ LET m == Head(modemQ)
       IN  \E s \in (IF m.started THEN {m.todo} ELSE Scripts(calls[m.id].cmd)) :
             /\ wire' = wire \o Bytes(Head(s), m.id)
             /\ modemQ' = IF Len(s) = 1 THEN Tail(modemQ)
                          ELSE <<[m EXCEPT !.started = TRUE, !.todo = Tail(s)]>> \o Tail(modemQ)
    /\ UNCHANGED <<rx, calls, last, actorVars, urcVars, workerVars, link, urcs, faults, budget, urc_part, sideVars>>

\* the modem sends an unsolicited line
ModemUrc(u) ==
    /\ link = "up"
    /\ urcs < budget.urc
    /\ u \in budget.lines
    /\ ~budget.split
    /\ wire' = wire \o Bytes(u, 0)
    /\ urcs' = urcs + 1
    /\ UNCHANGED <<rx, calls, last, actorVars, urcVars, workerVars, modemQ, link, faults, budget, urc_part, sideVars>>

\* the modem sends the first bytes of an unsolicited line, the rest to follow
ModemUrcPart(u) ==
    /\ link = "up"
    /\ urcs < budget.urc
    /\ u \in budget.lines
    /\ budget.split
    /\ urc_part = << >>
    /\ wire' = wire \o SubSeq(Bytes(u, 0), 1, PartLen)
    /\ urc_part' = SubSeq(Bytes(u, 0), PartLen + 1, Len(Bytes(u, 0)))
    /\ urcs' = urcs + 1
    /\ UNCHANGED <<rx, calls, last, actorVars, urcVars, workerVars, modemQ, link, faults, budget, sideVars>>

\* the modem sends the rest of the line
ModemUrcRest ==
    /\ link = "up"
    /\ urc_part # << >>
    /\ wire' = wire \o urc_part
    /\ urc_part' = << >>
    /\ UNCHANGED <<rx, calls, last, actorVars, urcVars, workerVars, modemQ, link, urcs, faults, budget,
                   sideVars>>

\* the transport fails: the peer closes (reads return 0 once the bytes in
\* flight are read) or an I/O error (reads and writes fail)
LinkFail(k) ==
    /\ link = "up"
    /\ faults < budget.faults
    /\ link' = k
    /\ faults' = faults + 1
    /\ modemQ' = << >>
    /\ wire' = IF k = "err" THEN << >> ELSE wire
    /\ urc_part' = << >>
    /\ UNCHANGED <<rx, calls, last, actorVars, urcVars, workerVars, urcs, budget, sideVars>>

(***************************************************************************)
(* The system.                                                             *)
(***************************************************************************)
Actor ==
    \/ ActorConnect
    \/ ActorConnectFail
    \/ ActorTake
    \/ ActorIdleRead
    \/ ActorIdleLine
    \/ ActorIdleLost
    \/ ActorPreDrain
    \/ ActorDrainLine
    \/ ActorSend
    \/ ActorSendError
    \/ ActorTimeout
    \/ ActorAwaitWindow
    \/ ActorAwaitRead
    \/ ActorAwaitEOF
    \/ ActorAwaitReadError
    \/ ActorAwaitLine

Worker ==
    \/ WorkerRecv
    \/ WorkerHandle
    \/ WorkerReply

Environment ==
    \/ \E c \in ExtCmds \cup RichCmds : Submit(c)
    \/ ModemReply
    \/ \E u \in UrcLines \cup MixedLines : ModemUrc(u)
    \/ \E u \in UrcLines : ModemUrcPart(u)
    \/ ModemUrcRest
    \/ \E k \in {"eof", "err"} : LinkFail(k)

Next == Actor \/ Worker \/ Environment

Spec == Init /\ [][Next]_vars

(***************************************************************************)
(* Helpers of the properties.                                              *)
(***************************************************************************)
\* str::lines: the text split at LF, a CR before the LF left out
RECURSIVE lines(_)
lines(t) ==
    LET strip(x) == IF x # << >> /\ x[Len(x)] = CR THEN SubSeq(x, 1, Len(x) - 1) ELSE x
        lfs == {i \in 1..Len(t) : t[i] = LF}
    IN  IF t = << >> THEN << >>
        ELSE IF lfs = {} THEN <<strip(t)>>
        ELSE LET p == CHOOSE i \in lfs : \A j \in lfs : i <= j
             IN  <<strip(SubSeq(t, 1, p - 1))>> \o lines(SubSeq(t, p + 1, Len(t)))

\* the last transaction wrote a success to its one-shot
LastSucceeded == last.resp # << >> /\ last.resp[1].success

\* the body of that success, line by line
LastBody == lines(last.resp[1].data[1])

\* the line the actor is about to hand to the URC channel, if any
UrcToSend ==
    LET e == extract_next_line(buffer)
    IN  /\ pc \in {"IdleLines", "DrainLines", "AwaitLines"}
        /\ e.found
        /\ IF pc = "AwaitLines"
           THEN Classify(e.line, expected_prefix(calls[cur].cmd)) = "urc"
           ELSE is_urc(e.line)

\* the actor is suspended in urc_tx.send(line).await
ActorSuspended == UrcToSend /\ ~CanSend(urc_q, budget.cap)

\* the worker waits for the response to a command it submitted
WorkerWaits == worker.pc = "wait" /\ calls[worker.wait].st # "ended"

(***************************************************************************)
(* Properties.                                                             *)
(***************************************************************************)

\* C1: commands are served in the order they entered the intake (ids are
\* given in that order: no call is past the intake while an older one is
\* still queued), at most one command is in flight, and a command is on the
\* transport only when the transaction of every older command has ended.
C1_FifoOneInFlight ==
    /\ \A i, j \in 1..Len(calls) :
         (calls[i].st = "queued" /\ calls[j].st # "queued") => j < i
    /\ Cardinality({i \in 1..Len(calls) : calls[i].st \in {"taken", "written"}}) <= 1
    /\ \A i \in 1..Len(calls) :
         calls[i].st = "written" => \A j \in 1..(i - 1) : calls[j].st = "ended"

\* C1, witness: the second command is on the transport, the first has ended
C1_Witness ==
    /\ Len(calls) >= 2
    /\ calls[1].st = "ended"
    /\ calls[2].st = "written"

\* C2: the lines a response is made of (body and terminator) were sent by
\* the modem in reply to the command the response is delivered for.
C2_OwnReplyOnly == \A t \in last.src : t = last.id

\* C3: every transaction that ends has written exactly one response to its
\* one-shot, whatever way it ended.
C3_ExactlyOneResponse == last.id # 0 => Len(last.resp) = 1

\* C4, as claimed: the body of a success has no line that a URC predicate
\* accepts.
C4_NoUrcLineInBody ==
    LastSucceeded => \A i \in 1..Len(LastBody) : ~is_urc(LastBody[i])

\* C4, amended: the body of a success has no line that a URC predicate
\* accepts, other than lines that start with the command's expected prefix
\* (which is then not empty).
C4_NoForeignUrcLineInBody ==
    LastSucceeded =>
        \A i \in 1..Len(LastBody) :
            is_urc(LastBody[i]) =>
                /\ expected_prefix(last.cmd) # << >>
                /\ StartsWith(LastBody[i], expected_prefix(last.cmd))

\* C4, witness: a success whose body has a line that a URC predicate accepts
C4_Witness ==
    /\ LastSucceeded
    /\ \E i \in 1..Len(LastBody) : is_urc(LastBody[i])

C6_NeverSuspended == ~ActorSuspended

\* C7: the actor is never waiting to hand a line to the URC channel while
\* the worker waits for the response to a command it submitted.
C7_NoDeadlock == ~(WorkerWaits /\ ActorSuspended)

\* C8: a transaction, once its command is on the transport, can always go
\* on to its end: there is no state in which a command is on the transport,
\* the actor is suspended and the only task that could resume it, the
\* worker, waits for a response only the actor can write.
C8_TransactionEnds ==
    (cur # 0 /\ calls[cur].st = "written") => ~(ActorSuspended /\ WorkerWaits)

\* C9: when the deadline has passed at the top of the await loop, the
\* actor leaves the loop only by writing the failure Timeout to the caller
\* of the command in flight, and is then in the idle loop with the transport
\* it had.
C9_TimeoutKeepsTransport ==
    [][(pc = "Await" /\ elapsed >= TimeoutWindows /\ pc' # "Await") =>
          /\ last'.id = cur
          /\ last'.resp = <<ATResponse_error(T_Timeout)>>
          /\ pc' = "Idle"
          /\ connection /\ connection'
          /\ link' = link]_vars

\* C9, witness: a command timed out and a later command, on the same
\* transport, got the modem's answer to it
C9_Witness ==
    /\ faults = 0
    /\ last.via = "ok"
    /\ last.src = {last.id}
    /\ \E i \in 1..(last.id - 1) : calls[i].timedout

\* C10: after a transaction ended by end-of-stream, a read error or a write
\* error, and until the transport is connected again, the caller has its
\* failure, the transport is dropped and the actor is in the connect loop.
C10_DisconnectDropsTransport ==
    (last.via \in {"eof", "readerr", "writeerr"} /\ link # "up") =>
        /\ Len(last.resp) = 1
        /\ ~last.resp[1].success
        /\ ~connection
        /\ pc = "Disconnected"

\* the line the await loop reads next is diverted: a URC predicate accepts it
\* and it does not start with a non-empty expected prefix
DivertedNext ==
    /\ pc = "AwaitLines"
    /\ LET e == extract_next_line(buffer)
           prefix == expected_prefix(calls[cur].cmd)
       IN  is_urc(e.line) /\ ~(prefix # << >> /\ StartsWith(e.line, prefix))

\* C11: in the await loop, the step that reads a line which a URC predicate
\* accepts and which does not start with the command's expected prefix hands
\* that line once to the URC channel and once to the broadcast bus as
\* raw_data, and leaves the body and the transaction as they were.
C11_DivertedOnce ==
    [][(DivertedNext /\ buffer' # buffer) =>
          LET line == extract_next_line(buffer).line
          IN  /\ Len(urc_q') = Len(urc_q) + 1
              /\ urc_q'[Len(urc_q')].line = line
              /\ \A i \in 1..Len(urc_q) : urc_q'[i] = urc_q[i]
              /\ bus' = bus_send(bus, RawData(line))
              /\ response_data'.text = response_data.text
              /\ cur' = cur
              /\ last' = last]_vars

\* C11, witness: a command with an expected prefix ended with the body OK
\* after a URC line was diverted during its transaction
C11_Witness ==
    /\ last.via = "ok"
    /\ last.diverted >= 1
    /\ expected_prefix(last.cmd) # << >>
    /\ last.resp[1].data = <<T_OK>>
    /\ bus # << >>
    /\ bus[Len(bus)].type = "raw_data"

\* C12: the worker receives the lines in the order the actor framed them (the
\* ids count the lines in framing order): a line it receives was framed after
\* every line it received before.
C12_UrcOrder == [][received' # received => received' > received]_vars

\* C12, witness: two different lines wait in the URC channel and the worker
\* has received a line before
C12_Witness ==
    /\ Len(urc_q) >= 2
    /\ urc_q[1].line # urc_q[2].line
    /\ urc_q[1].id < urc_q[2].id

\* the handlers of the registry whose can_handle holds for a line and whose
\* place in the registry is in lo..hi, in registry order
RECURSIVE Matching(_, _, _)
Matching(line, lo, hi) ==
    IF lo > hi THEN << >>
    ELSE (IF can_handle(lo, line) THEN <<lo>> ELSE << >>) \o Matching(line, lo + 1, hi)

\* C13: the worker handles one line at a time, and for the line invokes in
\* registry order (Call, MemoryFull, NewSMS, PDCP, Signal) every handler whose
\* can_handle holds, each after the one before has completed: about to invoke
\* handler h it has invoked exactly the matching handlers before h, awaiting a
\* response inside handler h exactly those up to h, and when it takes the next
\* line (or waits for one) it has invoked all of them, whatever the responses
\* to the handlers' commands were.
C13_HandlersInOrder ==
    /\ worker.pc = "recv" => handled.hs = Matching(handled.line, 1, NumHandlers)
    /\ worker.pc = "dispatch" =>
          /\ handled.line = worker.line
          /\ can_handle(worker.h, worker.line)
          /\ handled.hs = Matching(worker.line, 1, worker.h - 1)
    /\ worker.pc = "wait" =>
          /\ handled.line = worker.line
          /\ handled.hs = Matching(worker.line, 1, worker.h)

\* C13, witness: a line that the Call, NewSMS and Signal handlers can handle has
\* been through the three of them, the command of one of them having failed
C13_Witness ==
    /\ worker.pc = "recv"
    /\ handled.line = L_MIXED
    /\ handled.hs = <<1, 3, 5>>
    /\ \E i \in 1..Len(calls) : calls[i].from = "urc" /\ calls[i].timedout

(***************************************************************************)
(* The partial-SMS cache and NewSMSHandler::process_sms (src/handlers.rs). *)
(* The cache is a set of entries [key, count, parts, ts] with one entry a  *)
(* key, parts a set of [n, text] with one text a part number.              *)
(***************************************************************************)
DigitChar(d) == <<"0", "1", "2", "3", "4", "5", "6", "7", "8", "9">>[d + 1]

\* format!("{}", n) of an unsigned integer
RECURSIVE Decimal(_)
Decimal(n) == IF n < 10 THEN <<DigitChar(n)>> ELSE Decimal(n \div 10) \o <<DigitChar(n % 10)>>

\* format!("{}_{}", sms.sender, partial.reference)
sms_key(sender, reference) == sender \o <<"_">> \o Decimal(reference)

\* map.retain(|_, (_, _, ts)| current_time - *ts < 3600)
retain(map, current_time) == {en \in map : current_time - en.ts < MaxAge}

HasKey(map, key) == \E en \in map : en.key = key
Entry(map, key) == CHOOSE en \in map : en.key = key

\* map.entry(key).or_insert((parts_count, HashMap::new(), current_time))
or_insert(map, key, parts_count, current_time) ==
    IF HasKey(map, key) THEN Entry(map, key)
    ELSE [key |-> key, count |-> parts_count, parts |-> {}, ts |-> current_time]

\* entry.1.insert(part_number, content)
insert(parts, n, text) == {p \in parts : p.n # n} \cup {[n |-> n, text |-> text]}

\* entry.1.get(&i)
get(parts, i) == IF \E p \in parts : p.n = i THEN <<(CHOOSE p \in parts : p.n = i).text>> ELSE << >>

is_complete_last(entry) == get(entry.parts, entry.count) # << >>

\* entry.1.len() == entry.0 as usize
is_complete(entry) == Cardinality(entry.parts) = entry.count

\* for i in 1..=entry.0 { if let Some(part) = entry.1.get(&i) { content.push_str(part) } }
RECURSIVE push_parts(_, _, _)
push_parts(parts, i, count) ==
    IF i > count THEN << >>
    ELSE (IF get(parts, i) = << >> THEN << >> ELSE get(parts, i)[1]) \o push_parts(parts, i + 1, count)

full_content(entry) == push_parts(entry.parts, 1, entry.count)

remove_nothing(map, key) == map

\* map.remove(&key)
remove(map, key) == {en \in map : en.key # key}

\* notifications.notify(&sms.sender, &content, NotificationType::SMS)
Notification(sender, content) == [sender |-> sender, content |-> content]

\* process_sms: the cache it leaves and the notifications it emits
process_sms(map, current_time, sms) ==
    IF sms.partial_info = << >>
    THEN [cache |-> map, notes |-> <<Notification(sms.sender, sms.content)>>]
    ELSE LET partial == sms.partial_info[1]
             key == sms_key(sms.sender, partial.reference)
             kept == retain(map, current_time)
             entry0 == or_insert(kept, key, partial.parts_count, current_time)
             entry == [entry0 EXCEPT !.parts = insert(@, partial.part_number, sms.content)]
             stored == remove(kept, key) \cup {entry}
         IN  IF is_complete(entry)
             THEN [cache |-> remove(stored, key),
                   notes |-> <<Notification(sms.sender, full_content(entry))>>]
             ELSE [cache |-> stored, notes |-> << >>]

\* the text of part i of a message
PartText(msg, i) == <<msg, DigitChar(i)>>

\* SmsData of a fragment, as read_incoming_sms returns it
Fragment(sender, reference, parts_count, part_number, msg) ==
    [sender |-> sender, content |-> PartText(msg, part_number),
     partial_info |-> <<[reference |-> reference, parts_count |-> parts_count,
                         part_number |-> part_number]>>]

Sender5 == <<"5">>
Sender6 == <<"6">>
Ref == 7
Totals == {MaxPart - 1, MaxPart}

\* the SMS of a run: fragments of two messages of one sender under one
\* reference, with part numbers in and out of 1..N; fragments of a message of
\* another sender; an SMS that is not concatenated
SmsPool ==
    {Fragment(Sender5, Ref, n, i, msg) :
        n \in Totals, i \in 0..MaxPart, msg \in {"a"}}
    \cup {Fragment(Sender5, Ref, n, i, "b") : n \in Totals, i \in 1..2}
    \cup {Fragment(Sender6, Ref, MaxPart - 1, i, "a") : i \in 1..(MaxPart - 1)}
    \cup {[sender |-> Sender6, content |-> <<"h", "i">>, partial_info |-> << >>]}

\* the clock moves on
SmsClock ==
    /\ sms_now + ClockStep <= MaxNow
    /\ sms_now' = sms_now + ClockStep
    /\ UNCHANGED <<sms_cache, sms_out, sms_last, notSms>>

\* NewSMSHandler::handle decoded an SMS and calls process_sms
SmsProcess(sms) ==
    /\ sms_cache' = process_sms(sms_cache, sms_now, sms).cache
    /\ sms_out' = process_sms(sms_cache, sms_now, sms).notes
    /\ sms_last' = <<sms>>
    /\ UNCHANGED <<sms_now, notSms>>

SmsNext == SmsClock \/ \E sms \in SmsPool : SmsProcess(sms)

SmsInit == MuxStart(NoRun) /\ SideStart

SmsSpec == SmsInit /\ [][SmsNext]_vars

\* process_sms called for the parts of a message in the order given, a gap of
\* seconds apart: the notifications emitted, in order
RECURSIVE Feed(_, _, _, _, _)
Feed(map, current_time, gap, order, part) ==
    IF order = << >> THEN << >>
    ELSE LET r == process_sms(map, current_time, part[Head(order)])
         IN  r.notes \o Feed(r.cache, current_time + gap, gap, Tail(order), part)

\* the orders in which parts 1..n can arrive
ArrivalOrders(n) == {f \in [1..n -> 1..n] : \A i, j \in 1..n : f[i] = f[j] => i = j}

Ascending(n) == [i \in 1..n |-> i]

\* the parts 1..n of a message of n parts
Parts(sender, reference, n, msg) == [i \in 1..n |-> Fragment(sender, reference, n, i, msg)]

\* fed at the current state in every order, the n parts of a message give the
\* notifications they give in ascending order
OrderIndependent(n) ==
    \A gap \in {0, ClockStep} : \A order \in ArrivalOrders(n) :
        Feed(sms_cache, sms_now, gap, order, Parts(Sender5, Ref, n, "a"))
          = Feed(sms_cache, sms_now, gap, Ascending(n), Parts(Sender5, Ref, n, "a"))

\* C14 as stated: whatever the cache holds, the N parts of a message (part
\* numbers 1..N, one sender, one reference, total N) fed to process_sms in any
\* order give the notification content they give in ascending order.
C14_OrderIndependentAnyCache == \A n \in Totals : OrderIndependent(n)

\* C14, amended: the same when the cache holds no fragment under the key of
\* the message (none it would keep at the time of the first part).
C14_OrderIndependentFreshKey ==
    ~HasKey(retain(sms_cache, sms_now), sms_key(Sender5, Ref)) =>
        \A n \in Totals : OrderIndependent(n)

\* C14, witness: a message of three parts is complete with part 1, the parts
\* having arrived in another order than 1, 2, 3, and the notification has the
\* three texts in the order of the part numbers
C14_Witness ==
    /\ sms_last = <<Fragment(Sender5, Ref, MaxPart, 1, "a")>>
    /\ sms_out = <<Notification(Sender5, PartText("a", 1) \o PartText("a", 2) \o PartText("a", 3))>>
    /\ ~HasKey(sms_cache, sms_key(Sender5, Ref))

\* the step is a call of process_sms with fragment sms
Processes(sms) == sms_last' = <<sms>> /\ sms_now' = sms_now /\ sms.partial_info # << >>

\* the part numbers and texts the group of a fragment has once the fragment is in
GroupAfter(sms) ==
    LET partial == sms.partial_info[1]
        group == or_insert(retain(sms_cache, sms_now), sms_key(sms.sender, partial.reference),
                           partial.parts_count, sms_now)
    IN  [count |-> group.count, parts |-> insert(group.parts, partial.part_number, sms.content)]

AllPresent(group) == \A i \in 1..group.count : get(group.parts, i) # << >>

\* C15: the call of process_sms after which all parts of a (sender, reference)
\* group are present emits one notification, with the texts of parts 1..N in
\* order, and leaves no cache entry under the key; a call that leaves the
\* group in the cache (an earlier fragment) emits no notification.
C15_NotifiedOnceAndRemoved ==
    [][\A sms \in SmsPool : Processes(sms) =>
          LET key == sms_key(sms.sender, sms.partial_info[1].reference)
              group == GroupAfter(sms)
          IN  /\ AllPresent(group) =>
                    /\ sms_out' = <<Notification(sms.sender, push_parts(group.parts, 1, group.count))>>
                    /\ ~HasKey(sms_cache', key)
              /\ HasKey(sms_cache', key) => sms_out' = << >>]_vars

\* C15, witness: the second fragment of a message of two parts has been
\* processed after the first, the text of both is notified and the key is gone
C15_Witness ==
    /\ sms_last = <<Fragment(Sender6, Ref, MaxPart - 1, 2, "a")>>
    /\ sms_out = <<Notification(Sender6, PartText("a", 1) \o PartText("a", 2))>>
    /\ ~HasKey(sms_cache, sms_key(Sender6, Ref))
    /\ HasKey(sms_cache, sms_key(Sender5, Ref))


(***************************************************************************)
(* The schedule controller (src/schedule.rs): the commands it builds, the  *)
(* mode it selects, and its loop. Times of day are minutes since midnight. *)
(***************************************************************************)
S_CFUN0 == <<"A", "T", "+", "C", "F", "U", "N", "=", "0", "\r", "\n">>
S_CFUN1 == <<"A", "T", "+", "C", "F", "U", "N", "=", "1", "\r", "\n">>
S_LteUnlock == <<"A", "T", "^", "L", "T", "E", "F", "R", "E", "Q", "L", "O", "C", "K", "=", "0", "\r", "\n">>
S_NrUnlock == <<"A", "T", "^", "N", "R", "F", "R", "E", "Q", "L", "O", "C", "K", "=", "0", "\r", "\n">>
S_LteLock == <<"A", "T", "^", "L", "T", "E", "F", "R", "E", "Q", "L", "O", "C", "K", "=">>
S_NrLock == <<"A", "T", "^", "N", "R", "F", "R", "E", "Q", "L", "O", "C", "K", "=">>
S_CREG == <<"A", "T", "+", "C", "R", "E", "G", "?", "\r", "\n">>
S_CEREG == <<"A", "T", "+", "C", "E", "R", "E", "G", "?", "\r", "\n">>

\* str::split(',')
RECURSIVE SplitComma(_)
SplitComma(s) ==
    LET ks == {k \in 1..Len(s) : s[k] = ","}
    IN  IF ks = {} THEN <<s>>
        ELSE LET k == CHOOSE i \in ks : \A j \in ks : i <= j
             IN  <<SubSeq(s, 1, k - 1)>> \o SplitComma(SubSeq(s, k + 1, Len(s)))

\* .map(|s| s.trim()).filter(|s| !s.is_empty()).collect()
RECURSIVE TrimmedNonEmpty(_)
TrimmedNonEmpty(items) ==
    IF items = << >> THEN << >>
    ELSE (IF Trim(Head(items)) = << >> THEN << >> ELSE <<Trim(Head(items))>>)
         \o TrimmedNonEmpty(Tail(items))

\* x.split(',').map(|s| s.trim()).filter(|s| !s.is_empty()).collect()
split_list(s) == TrimmedNonEmpty(SplitComma(s))

\* [&str]::join(",")
RECURSIVE join(_)
join(items) ==
    IF items = << >> THEN << >>
    ELSE IF Len(items) = 1 THEN items[1]
    ELSE items[1] \o <<",">> \o join(Tail(items))

\* ,"<items joined>" in a format! string
QuotedList(items) == <<",", "\"">> \o join(items) \o <<"\"">>

\* the head of a lock command: AT^xFREQLOCK=<type>,0,<count>
LockHead(name, lock_type, count) ==
    name \o Decimal(lock_type) \o <<",", "0", ",">> \o Decimal(count)

build_lte_command_no_pci(lock_type, bands, arfcns, pcis) ==
    LET arfcn_list == split_list(arfcns)
        pci_list == split_list(pcis)
    IN  IF lock_type = 3
        THEN LockHead(S_LteLock, 3, Len(bands)) \o QuotedList(bands) \o T_CRLF
        ELSE IF lock_type = 1
        THEN IF Len(bands) # Len(arfcn_list) THEN S_LteUnlock
             ELSE LockHead(S_LteLock, 1, Len(bands)) \o QuotedList(bands)
                  \o QuotedList(arfcn_list) \o T_CRLF
        ELSE IF lock_type = 2
        THEN IF Len(bands) # Len(arfcn_list) THEN S_LteUnlock
             ELSE LockHead(S_LteLock, 2, Len(bands)) \o QuotedList(bands)
                  \o QuotedList(arfcn_list) \o QuotedList(pci_list) \o T_CRLF
        ELSE S_LteUnlock

build_lte_command(lock_type, bands, arfcns, pcis) ==
    LET arfcn_list == split_list(arfcns)
        pci_list == split_list(pcis)
    IN  IF lock_type = 3
        THEN LockHead(S_LteLock, 3, Len(bands)) \o QuotedList(bands) \o T_CRLF
        ELSE IF lock_type = 1
        THEN IF Len(bands) # Len(arfcn_list) THEN S_LteUnlock
             ELSE LockHead(S_LteLock, 1, Len(bands)) \o QuotedList(bands)
                  \o QuotedList(arfcn_list) \o T_CRLF
        ELSE IF lock_type = 2
        THEN IF Len(bands) # Len(arfcn_list) \/ Len(arfcn_list) # Len(pci_list) THEN S_LteUnlock
             ELSE LockHead(S_LteLock, 2, Len(bands)) \o QuotedList(bands)
                  \o QuotedList(arfcn_list) \o QuotedList(pci_list) \o T_CRLF
        ELSE S_LteUnlock

build_nr_command(lock_type, bands, arfcns, scs_types, pcis) ==
    LET arfcn_list == split_list(arfcns)
        scs_list == split_list(scs_types)
        pci_list == split_list(pcis)
    IN  IF lock_type = 3
        THEN LockHead(S_NrLock, 3, Len(bands)) \o QuotedList(bands) \o T_CRLF
        ELSE IF lock_type = 1
        THEN IF Len(bands) # Len(arfcn_list) THEN S_NrUnlock
             ELSE LockHead(S_NrLock, 1, Len(bands)) \o QuotedList(bands)
                  \o QuotedList(arfcn_list) \o T_CRLF
        ELSE IF lock_type = 2
        THEN IF \/ Len(bands) # Len(arfcn_list)
                \/ Len(arfcn_list) # Len(scs_list)
                \/ Len(scs_list) # Len(pci_list)
             THEN S_NrUnlock
             ELSE LockHead(S_NrLock, 2, Len(bands)) \o QuotedList(bands)
                  \o QuotedList(arfcn_list) \o QuotedList(scs_list)
                  \o QuotedList(pci_list) \o T_CRLF
        ELSE S_NrUnlock

DigitValue(c) == CHOOSE d \in 0..9 : DigitChar(d) = c

\* NaiveTime::parse_from_str(s, "%H:%M") for texts of five characters: the
\* minutes since midnight, or nothing when the text is no time of day
parse_from_str(s) ==
    IF /\ Len(s) = 5
       /\ s[3] = ":"
       /\ \A k \in {1, 2, 4, 5} : s[k] \in Digits
       /\ 10 * DigitValue(s[1]) + DigitValue(s[2]) < 24
       /\ 10 * DigitValue(s[4]) + DigitValue(s[5]) < 60
    THEN <<60 * (10 * DigitValue(s[1]) + DigitValue(s[2]))
             + 10 * DigitValue(s[4]) + DigitValue(s[5])>>
    ELSE << >>

\* .unwrap_or_else(|_| NaiveTime::from_hms_opt(22, 0, 0)) and (6, 0, 0)
DefaultNightStart == 1320
DefaultNightEnd == 360

night_start_of(config) ==
    IF parse_from_str(config.night_start) = << >> THEN DefaultNightStart
    ELSE parse_from_str(config.night_start)[1]

night_end_of(config) ==
    IF parse_from_str(config.night_end) = << >> THEN DefaultNightEnd
    ELSE parse_from_str(config.night_end)[1]

get_current_mode_and(config, now) ==
    LET night_start == night_start_of(config)
        night_end == night_end_of(config)
        is_night == IF night_start <= night_end
                    THEN now >= night_start /\ now < night_end
                    ELSE now >= night_start /\ now < night_end
    IN  IF is_night
        THEN (IF config.night_enabled THEN <<"night">> ELSE << >>)
        ELSE (IF config.day_enabled THEN <<"day">> ELSE << >>)

\* get_current_mode, with Local::now().time() given
get_current_mode(config, now) ==
    LET night_start == night_start_of(config)
        night_end == night_end_of(config)
        is_night == IF night_start <= night_end
                    THEN now >= night_start /\ now < night_end
                    ELSE now >= night_start \/ now < night_end
    IN  IF is_night
        THEN (IF config.night_enabled THEN <<"night">> ELSE << >>)
        ELSE (IF config.day_enabled THEN <<"day">> ELSE << >>)


T_2200 == <<"2", "2", ":", "0", "0">>
T_0600 == <<"0", "6", ":", "0", "0">>
T_1200 == <<"1", "2", ":", "0", "0">>
T_2500 == <<"2", "5", ":", "0", "0">>

\* the lock settings of a mode: (lte_type, lte_bands, .., nr_pcis) of
\* set_frequency_lock
BandLock(lte_bands, nr_bands) ==
    [lte_type |-> 3, lte_bands |-> lte_bands, lte_arfcns |-> << >>, lte_pcis |-> << >>,
     nr_type |-> 3, nr_bands |-> nr_bands, nr_arfcns |-> << >>, nr_scs_types |-> << >>,
     nr_pcis |-> << >>]

BaseConfig ==
    [enabled |-> TRUE, night_enabled |-> TRUE, day_enabled |-> TRUE,
     toggle_airplane |-> TRUE, unlock_lte |-> FALSE, unlock_nr |-> FALSE,
     night_start |-> T_2200, night_end |-> T_0600, timeout |-> SchedTimeout,
     night |-> BandLock(<<"3">>, <<"7", "8">>), day |-> BandLock(<<"1", ",", "3">>, <<"4", "1">>)]

T_Two == <<"3", ",", " ", "7">>
OneOrTwo == {<<"3">>, T_Two}
UpToTwo == {<< >>, <<"1">>, <<"1", ",", "2">>}

\* the schedules of the runs: the modes and steps switched on and off; the
\* night window in both orders, empty, and with texts that are no time; the
\* parallel lists of an LTE lock and of an NR lock in every combination of
\* lengths
SchedConfigs ==
    {[BaseConfig EXCEPT !.night_enabled = n, !.day_enabled = d, !.toggle_airplane = a,
                        !.unlock_lte = u, !.unlock_nr = u, !.day.lte_type = 0,
                        !.day.nr_bands = <<" ">>] :
        n \in BOOLEAN, d \in BOOLEAN, a \in BOOLEAN, u \in BOOLEAN}
    \cup {[BaseConfig EXCEPT !.night_start = s, !.night_end = e] :
            s \in {T_2200, T_0600, T_1200, T_2500}, e \in {T_0600, T_2200, T_1200, << >>}}
    \cup {[BaseConfig EXCEPT !.night_enabled = FALSE, !.day.lte_type = t, !.day.lte_bands = b,
                             !.day.lte_arfcns = f, !.day.lte_pcis = c] :
            t \in 1..2, b \in OneOrTwo, f \in UpToTwo, c \in OneOrTwo}
    \cup {[BaseConfig EXCEPT !.night_enabled = FALSE, !.day.nr_type = t, !.day.nr_bands = b,
                             !.day.nr_arfcns = f, !.day.nr_scs_types = x, !.day.nr_pcis = c] :
            t \in 1..2, b \in {T_Two}, f \in OneOrTwo, x \in OneOrTwo, c \in OneOrTwo}

\* the times of day a tick can fall on: midnight, the minutes around 06:00 and
\* around 22:00, noon
Times == {0, 359, 360, 720, 1319, 1320}

\* the (.., ..) = if mode == "night" { .. } else { .. } of set_frequency_lock
ModeConfig(config, mode) == IF mode = "night" THEN config.night ELSE config.day

\* the command of step k of set_frequency_lock, if the step has one
PolicyCommand(config, mode, k) ==
    LET m == ModeConfig(config, mode)
    IN  IF k = 1 THEN (IF config.toggle_airplane THEN <<S_CFUN0>> ELSE << >>)
        ELSE IF k = 2
        THEN IF m.lte_type > 0 /\ Trim(m.lte_bands) # << >>
             THEN (IF split_list(m.lte_bands) # << >>
                   THEN <<build_lte_command(m.lte_type, split_list(m.lte_bands),
                                            m.lte_arfcns, m.lte_pcis)>>
                   ELSE << >>)
             ELSE (IF config.unlock_lte THEN <<S_LteUnlock>> ELSE << >>)
        ELSE IF k = 3
        THEN IF m.nr_type > 0 /\ Trim(m.nr_bands) # << >>
             THEN (IF split_list(m.nr_bands) # << >>
                   THEN <<build_nr_command(m.nr_type, split_list(m.nr_bands),
                                           m.nr_arfcns, m.nr_scs_types, m.nr_pcis)>>
                   ELSE << >>)
             ELSE (IF config.unlock_nr THEN <<S_NrUnlock>> ELSE << >>)
        ELSE (IF config.toggle_airplane THEN <<S_CFUN1>> ELSE << >>)

\* the command of step k of unlock_all, if the step has one
UnlockCommand(config, k) ==
    IF k = 1 THEN (IF config.toggle_airplane THEN <<S_CFUN0>> ELSE << >>)
    ELSE IF k = 2 THEN <<S_LteUnlock>>
    ELSE IF k = 3 THEN <<S_NrUnlock>>
    ELSE (IF config.toggle_airplane THEN <<S_CFUN1>> ELSE << >>)

LastStep == 4

\* a sequence that runs its steps last to first
SequenceCommand_backwards(config, seq, k) ==
    IF seq.kind = "apply" THEN PolicyCommand(config, seq.mode[1], LastStep + 1 - k)
    ELSE UnlockCommand(config, LastStep + 1 - k)

\* the command of step k of the sequence of the tick, if the step has one
SequenceCommand(config, seq, k) ==
    IF seq.kind = "apply" THEN PolicyCommand(config, seq.mode[1], k) ELSE UnlockCommand(config, k)

\* the first step from k on that has a command, LastStep + 1 when none has
StepFrom(config, seq, k) ==
    LET ks == {j \in k..LastStep : SequenceCommand(config, seq, j) # << >>}
    IN  IF ks = {} THEN LastStep + 1 ELSE CHOOSE j \in ks : \A i \in ks : j <= i

\* what send_command returns: a response with success, a response without
\* (an error line, a timeout), or Err when the one-shot was dropped
Outcomes == {"ok", "fail", "dropped"}

\* monitor_loop, from the top of the loop to the first command of the tick:
\* get_current_mode, and set_frequency_lock or unlock_all when the target
\* differs from current_mode
SchedTick ==
    /\ sched_pc = "tick"
    /\ sched_cfg.enabled
    /\ LET target == get_current_mode(sched_cfg, sched_clock)
           seq == IF target = sched_current THEN NoSequence
                  ELSE IF target # << >> THEN [kind |-> "apply", mode |-> target, cmds |-> << >>]
                  ELSE [kind |-> "unlock", mode |-> << >>, cmds |-> << >>]
           first == StepFrom(sched_cfg, seq, 1)
           runs == IF target = sched_target THEN sched_runs ELSE 0
       IN  /\ sched_target' = target
           /\ sched_runs' = IF seq.kind = "apply" THEN (IF runs < 2 THEN runs + 1 ELSE runs) ELSE runs
           /\ IF seq.kind = "none"
              THEN /\ sched_pc' = "creg"
                   /\ UNCHANGED <<sched_step, sched_current, sched_log>>
              ELSE /\ sched_log' = seq
                   /\ IF first > LastStep
                      THEN /\ sched_pc' = "creg"
                           /\ sched_current' = target
                           /\ UNCHANGED sched_step
                      ELSE /\ sched_pc' = "sequence"
                           /\ sched_step' = first
                           /\ UNCHANGED sched_current
    /\ UNCHANGED <<sched_cfg, sched_clock, sched_since, notSched>>

\* send_command of a step of set_frequency_lock or unlock_all returns: with
\* Err the sequence is left, with a response it goes on to the next step,
\* and after the last step current_mode is set (mode change) or the service
\* timer reset (recovery)
SchedCommand(outcome) ==
    /\ sched_pc = "sequence"
    /\ sched_log' = [sched_log EXCEPT
                       !.cmds = Append(@, SequenceCommand(sched_cfg, sched_log, sched_step)[1])]
    /\ LET next == StepFrom(sched_cfg, sched_log, sched_step + 1)
           ended == outcome = "dropped" \/ next > LastStep
       IN  /\ sched_step' = IF ended THEN 0 ELSE next
           /\ sched_pc' = IF ~ended THEN "sequence"
                          ELSE IF sched_log.kind = "recover" THEN "sleep" ELSE "creg"
           /\ sched_current' = IF outcome = "dropped" \/ next <= LastStep THEN sched_current
                               ELSE IF sched_log.kind = "apply" THEN sched_log.mode
                               ELSE IF sched_log.kind = "unlock" THEN << >>
                               ELSE sched_current
           /\ sched_since' = IF ended /\ sched_log.kind = "recover" THEN 0 ELSE sched_since
    /\ UNCHANGED <<sched_cfg, sched_clock, sched_target, sched_runs, notSched>>

T_CREG1 == <<"+", "C", "R", "E", "G", ":", " ", "0", ",", "1">>
T_CREG5 == <<"+", "C", "R", "E", "G", ":", " ", "0", ",", "5">>
T_CREG2 == <<"+", "C", "R", "E", "G", ":", " ", "0", ",", "2">>
T_CEREG1 == <<"+", "C", "E", "R", "E", "G", ":", " ", "0", ",", "1">>
T_CEREG5 == <<"+", "C", "E", "R", "E", "G", ":", " ", "0", ",", "5">>
T_CEREG2 == <<"+", "C", "E", "R", "E", "G", ":", " ", "0", ",", "2">>

\* what the modem answers to AT+CREG? / AT+CEREG? (resp.data), or no data
CregData == {<<T_CREG1>>, <<T_CREG5>>, <<T_CREG2>>, << >>}
CeregData == {<<T_CEREG1>>, <<T_CEREG5>>, <<T_CEREG2>>, << >>}

\* data.contains("+CREG: 0,1") || data.contains("+CREG: 0,5")
CregService(data) ==
    data # << >> /\ (Contains(data[1], T_CREG1) \/ Contains(data[1], T_CREG5))

CeregService(data) ==
    data # << >> /\ (Contains(data[1], T_CEREG1) \/ Contains(data[1], T_CEREG5))

\* check_network_status returned Ok(false): recovery when the time without
\* service has reached the timeout
NoService ==
    IF sched_since >= sched_cfg.timeout
    THEN LET seq == [kind |-> "recover", mode |-> << >>, cmds |-> << >>]
         IN  /\ sched_log' = seq
             /\ sched_pc' = "sequence"
             /\ sched_step' = StepFrom(sched_cfg, seq, 1)
             /\ UNCHANGED sched_since
    ELSE /\ sched_pc' = "sleep"
         /\ UNCHANGED <<sched_step, sched_since, sched_log>>

\* check_network_status, AT+CREG?: Err, service, or on to AT+CEREG?
SchedCreg(dropped, data) ==
    /\ sched_pc = "creg"
    /\ IF dropped
       THEN sched_pc' = "sleep" /\ UNCHANGED sched_since
       ELSE IF CregService(data)
       THEN sched_pc' = "sleep" /\ sched_since' = 0
       ELSE sched_pc' = "cereg" /\ UNCHANGED sched_since
    /\ UNCHANGED <<sched_cfg, sched_clock, sched_step, sched_current, sched_target,
                   sched_log, sched_runs, notSched>>

\* check_network_status, AT+CEREG?, and the match on its result
SchedCereg(dropped, data) ==
    /\ sched_pc = "cereg"
    /\ IF dropped
       THEN sched_pc' = "sleep" /\ UNCHANGED <<sched_step, sched_since, sched_log>>
       ELSE IF CeregService(data)
       THEN sched_pc' = "sleep" /\ sched_since' = 0 /\ UNCHANGED <<sched_step, sched_log>>
       ELSE NoService
    /\ UNCHANGED <<sched_cfg, sched_clock, sched_current, sched_target, sched_runs,
                   notSched>>

\* sleep(check_interval): the next tick falls on some time of day
SchedSleep(t) ==
    /\ sched_pc = "sleep"
    /\ sched_pc' = "tick"
    /\ sched_clock' = t
    /\ sched_since' = IF sched_since < sched_cfg.timeout THEN sched_since + 1 ELSE sched_since
    /\ sched_log' = NoSequence
    /\ UNCHANGED <<sched_cfg, sched_step, sched_current, sched_target, sched_runs,
                   notSched>>

SchedNext ==
    \/ SchedTick
    \/ \E outcome \in Outcomes : SchedCommand(outcome)
    \/ \E dropped \in BOOLEAN, data \in CregData : SchedCreg(dropped, data)
    \/ \E dropped \in BOOLEAN, data \in CeregData : SchedCereg(dropped, data)
    \/ \E t \in Times : SchedSleep(t)

SchedInit ==
    \E c \in SchedConfigs :
        MuxStart(NoRun) /\ SmsStart /\ SchedStart(c) /\ DialStart(T_ipv4v6) /\ GwStart(<< >>)
        /\ PureStart

SchedSpec == SchedInit /\ [][SchedNext]_vars


\* the night window of a schedule, and whether a time of day is in it
InNight(config, t) ==
    IF night_start_of(config) > night_end_of(config)
    THEN t >= night_start_of(config) \/ t < night_end_of(config)
    ELSE night_start_of(config) <= t /\ t < night_end_of(config)

\* C16: for a night window [s, e) that crosses midnight (s > e), night and day
\* enabled, the mode of a tick at time t is night iff t >= s or t < e, and day
\* otherwise; when the mode of the period the time is in is disabled, the
\* mode is none.
C16_ModeSelection ==
    sched_pc # "tick" =>
        /\ (/\ night_start_of(sched_cfg) > night_end_of(sched_cfg)
            /\ sched_cfg.night_enabled
            /\ sched_cfg.day_enabled) =>
               sched_target = IF \/ sched_clock >= night_start_of(sched_cfg)
                                 \/ sched_clock < night_end_of(sched_cfg)
                              THEN <<"night">> ELSE <<"day">>
        /\ (InNight(sched_cfg, sched_clock) /\ ~sched_cfg.night_enabled) => sched_target = << >>
        /\ (~InNight(sched_cfg, sched_clock) /\ ~sched_cfg.day_enabled) => sched_target = << >>

\* C16, witness: the window 22:00-06:00, a tick at 05:59 found night
C16_Witness ==
    /\ sched_pc = "creg"
    /\ sched_cfg.night_start = T_2200
    /\ sched_cfg.night_end = T_0600
    /\ sched_cfg.day_enabled
    /\ sched_clock = 359
    /\ sched_target = <<"night">>

\* the commands of set_frequency_lock for a mode, all steps run
Policy(config, mode) ==
    PolicyCommand(config, mode, 1) \o PolicyCommand(config, mode, 2)
    \o PolicyCommand(config, mode, 3) \o PolicyCommand(config, mode, 4)

\* C17: after a change of the target mode the policy of the mode is applied
\* once: set_frequency_lock is not entered a second time while the target
\* stays, and when it has returned its commands are AT+CFUN=0 (airplane
\* toggling on), the LTE lock, the NR lock, AT+CFUN=1, in this order.
C17_PolicyOnceInOrder ==
    /\ sched_runs <= 1
    /\ (sched_pc = "creg" /\ sched_log.kind = "apply") =>
          sched_log.cmds = Policy(sched_cfg, sched_log.mode[1])

\* the count field of a lock command: AT^xFREQLOCK=<type>,0,<count>,..
CountField(cmd) == SplitComma(cmd)[3]

SameLength(lists) == \A i, j \in 1..Len(lists) : Len(lists[i]) = Len(lists[j])

\* what C18 says of a built command, given the lists the lock type uses
BuilderRule(cmd, unlock, lists) ==
    IF SameLength(lists) THEN CountField(cmd) = Decimal(Len(lists[1])) ELSE cmd = unlock

\* C18: for lock type 1 or 2, when the lists the type uses (bands and arfcns;
\* for type 2 also pcis and, for NR, scs types) do not all have the same
\* length, build_lte_command / build_nr_command give exactly the unlock form,
\* and when they have, the count field is their common length.
C18_BuilderMismatchUnlocks ==
    \A m \in {sched_cfg.night, sched_cfg.day} :
        LET lte_bands == split_list(m.lte_bands)
            nr_bands == split_list(m.nr_bands)
        IN  /\ m.lte_type = 1 =>
                 BuilderRule(build_lte_command(1, lte_bands, m.lte_arfcns, m.lte_pcis), S_LteUnlock,
                             <<lte_bands, split_list(m.lte_arfcns)>>)
            /\ m.lte_type = 2 =>
                 BuilderRule(build_lte_command(2, lte_bands, m.lte_arfcns, m.lte_pcis), S_LteUnlock,
                             <<lte_bands, split_list(m.lte_arfcns), split_list(m.lte_pcis)>>)
            /\ m.nr_type = 1 =>
                 BuilderRule(build_nr_command(1, nr_bands, m.nr_arfcns, m.nr_scs_types, m.nr_pcis),
                             S_NrUnlock, <<nr_bands, split_list(m.nr_arfcns)>>)
            /\ m.nr_type = 2 =>
                 BuilderRule(build_nr_command(2, nr_bands, m.nr_arfcns, m.nr_scs_types, m.nr_pcis),
                             S_NrUnlock,
                             <<nr_bands, split_list(m.nr_arfcns), split_list(m.nr_scs_types),
                               split_list(m.nr_pcis)>>)

\* C18, witness: a cell lock (type 2) with as many arfcns as bands and fewer
\* pcis was built in a mode switch, and the unlock form was submitted
C18_Witness ==
    /\ sched_log.kind = "apply"
    /\ sched_log.mode = <<"day">>
    /\ sched_cfg.day.lte_type = 2
    /\ Len(split_list(sched_cfg.day.lte_bands)) = 2
    /\ Len(split_list(sched_cfg.day.lte_arfcns)) = 2
    /\ Len(split_list(sched_cfg.day.lte_pcis)) = 1
    /\ Len(sched_log.cmds) >= 2
    /\ sched_log.cmds[2] = S_LteUnlock


(***************************************************************************)
(* The dial supervisor (src/dial_monitor.rs).                              *)
(***************************************************************************)
D_CGPADDR == <<"A", "T", "+", "C", "G", "P", "A", "D", "D", "R">>
D_CNMI == <<"A", "T", "+", "C", "N", "M", "I", "=", "2", ",", "1", ",", "0", ",", "2", ",", "0">>
D_CMGF == <<"A", "T", "+", "C", "M", "G", "F", "=", "0">>
D_CLIP == <<"A", "T", "+", "C", "L", "I", "P", "=", "1">>
D_QNETDEVCTL == <<"A", "T", "+", "Q", "N", "E", "T", "D", "E", "V", "C", "T", "L", "=", "1", ",", "1", ",", "1">>
D_CGACT11 == <<"A", "T", "+", "C", "G", "A", "C", "T", "=", "1", ",", "1">>
D_CGACT10 == <<"A", "T", "+", "C", "G", "A", "C", "T", "=", "1", ",", "0">>
D_CGDCONT == <<"A", "T", "+", "C", "G", "D", "C", "O", "N", "T", "=", "1", ",">>
D_auto == <<"a", "u", "t", "o">>
T_CGPADDR == <<"+", "C", "G", "P", "A", "D", "D", "R", ":">>
T_IP == <<"I", "P">>
T_IPV6 == <<"I", "P", "V", "6">>
T_IPV4V6 == <<"I", "P", "V", "4", "V", "6">>
T_ZeroV4 == <<"0", ".", "0", ".", "0", ".", "0">>
T_ZeroV6 == <<":", ":">>
T_setup == <<"s", "e", "t", "u", "p">>

\* char::to_uppercase of the letters the model uses
UpperChar(c) ==
    IF c = "i" THEN "I" ELSE IF c = "p" THEN "P" ELSE IF c = "v" THEN "V" ELSE c

\* str::to_uppercase
to_uppercase(s) == [i \in 1..Len(s) |-> UpperChar(s[i])]

at_pdp_type_raw(pdp_type) == to_uppercase(pdp_type)

\* perform_dial: the PDP type of the AT+CGDCONT command
at_pdp_type(pdp_type) ==
    IF Contains(to_uppercase(pdp_type), T_IPV4V6) THEN T_IPV4V6
    ELSE IF Contains(to_uppercase(pdp_type), T_IPV6) THEN T_IPV6
    ELSE T_IP

\* format!("AT+CGDCONT=1,\"{}\",\"auto\"", at_pdp_type)
apn_cmd(pdp_type) ==
    D_CGDCONT \o <<"\"">> \o at_pdp_type(pdp_type) \o <<"\"", ",", "\"">> \o D_auto \o <<"\"">>

\* segment.trim_matches(|c| c == '"' || c == ' ' || c == '\r' || c == '\n')
trim_matches(s) ==
    LET keep == {i \in 1..Len(s) : s[i] \notin {"\"", " ", "\r", "\n"}}
    IN  IF keep = {} THEN << >>
        ELSE SubSeq(s, CHOOSE i \in keep : \A j \in keep : i <= j,
                       CHOOSE i \in keep : \A j \in keep : j <= i)

MaxV4Len == 15
MaxV6Len == 39

\* check_ip_status: a segment that counts as a valid IPv4 or IPv6 address
valid_ip(segment) ==
    LET clean_ip == trim_matches(segment)
    IN  /\ clean_ip # << >>
        /\ clean_ip # T_ZeroV4
        /\ clean_ip # T_ZeroV6
        /\ \/ Contains(clean_ip, <<".">>) /\ Len(clean_ip) <= MaxV4Len
           \/ Contains(clean_ip, <<":">>) /\ Len(clean_ip) <= MaxV6Len

\* line.splitn(2, ':'): the part after the first colon
AfterColon(line) ==
    LET ks == {k \in 1..Len(line) : line[k] = ":"}
    IN  SubSeq(line, (CHOOSE k \in ks : \A j \in ks : k <= j) + 1, Len(line))

\* check_ip_status: a line of the response that shows a valid address
line_has_ip(raw) ==
    LET line == Trim(raw)
        segments == SplitComma(Trim(AfterColon(line)))
    IN  /\ StartsWith(line, T_CGPADDR)
        /\ \E i \in 2..Len(segments) : valid_ip(segments[i])

\* check_ip_status on response.data
has_ip(data) ==
    /\ data # << >>
    /\ \E i \in 1..Len(lines(data[1])) : line_has_ip(lines(data[1])[i])

\* response.data of AT+CGPADDR: an IPv4 address; none yet; an IPv4 that is
\* none and an IPv6 address; no address field; no data
CgpaddrData ==
    {<<<<"+", "C", "G", "P", "A", "D", "D", "R", ":", " ", "1", ",", "\"", "1", "0", ".", "0", ".", "0", ".", "5", "\"">>>>, <<<<"+", "C", "G", "P", "A", "D", "D", "R", ":", " ", "1", ",", "\"", "0", ".", "0", ".", "0", ".", "0", "\"">>>>, <<<<"+", "C", "G", "P", "A", "D", "D", "R", ":", " ", "1", ",", "\"", "0", ".", "0", ".", "0", ".", "0", "\"", ",", "\"", "2", "4", ":", ":", "1", "\"", "\r", "\n", "O", "K">>>>, <<<<"+", "C", "G", "P", "A", "D", "D", "R", ":", " ", "1">>>>, << >>}

PdpTypes == {T_ipv4v6, <<"I", "P">>, <<"i", "p", "v", "6">>, <<"p", "p", "p">>}

\* the rising edge: if has_ip { if !is_connected {
needs_setup_always(found, connected) == found

needs_setup(found, connected) == found /\ ~connected

\* the URC reporting setup of the rising edge, and perform_dial
UrcSetup == <<D_CNMI, D_CMGF, D_CLIP>>
DialCommands(pdp_type) == <<apn_cmd(pdp_type), D_QNETDEVCTL, D_CGACT11, D_CGACT10>>

\* start_monitor, from the top of the loop through check_ip_status to the
\* first command after it
DialTick(dropped, data) ==
    /\ dial_pc = "tick"
    /\ dial_log' = << >>
    /\ IF dropped
       THEN /\ dial_pc' = "sleep"
            /\ dial_tick' = [ip |-> FALSE, was |-> is_connected]
            /\ UNCHANGED <<dial_step, is_connected>>
       ELSE /\ dial_tick' = [ip |-> has_ip(data), was |-> is_connected]
            /\ IF has_ip(data)
               THEN IF needs_setup(TRUE, is_connected)
                    THEN /\ is_connected' = TRUE
                         /\ dial_pc' = "urcsetup"
                         /\ dial_step' = 1
                    ELSE /\ dial_pc' = "sleep"
                         /\ UNCHANGED <<dial_step, is_connected>>
               ELSE /\ is_connected' = FALSE
                    /\ dial_pc' = "dial"
                    /\ dial_step' = 1
    /\ UNCHANGED <<dial_pdp, dial_setup, notDial>>

\* let _ = at_client.send_command(..).await of the rising edge or of
\* perform_dial: whatever it returns, on to the next
DialCommand(outcome) ==
    /\ dial_pc \in {"urcsetup", "dial"}
    /\ LET cmds == IF dial_pc = "urcsetup" THEN UrcSetup ELSE DialCommands(dial_pdp)
       IN  /\ dial_log' = Append(dial_log, cmds[dial_step])
           /\ IF dial_step < Len(cmds)
              THEN dial_step' = dial_step + 1 /\ UNCHANGED dial_pc
              ELSE /\ dial_step' = 0
                   /\ dial_pc' = IF dial_pc = "urcsetup" THEN "setup" ELSE "sleep"
    /\ UNCHANGED <<dial_pdp, is_connected, dial_tick, dial_setup, notDial>>

\* detect_modem_ifname and network::setup_modem_network, Ok or Err
DialSetup(ok) ==
    /\ dial_pc = "setup"
    /\ dial_log' = Append(dial_log, T_setup)
    /\ dial_setup' = IF ok THEN "ok" ELSE "failed"
    /\ dial_pc' = "sleep"
    /\ UNCHANGED <<dial_pdp, dial_step, is_connected, dial_tick, notDial>>

\* sleep(Duration::from_secs(10))
DialSleep ==
    /\ dial_pc = "sleep"
    /\ dial_pc' = "tick"
    /\ UNCHANGED <<dial_pdp, dial_step, is_connected, dial_tick, dial_log, dial_setup,
                   notDial>>

DialNext ==
    \/ \E dropped \in BOOLEAN, data \in CgpaddrData : DialTick(dropped, data)
    \/ \E outcome \in Outcomes : DialCommand(outcome)
    \/ \E ok \in BOOLEAN : DialSetup(ok)
    \/ DialSleep

DialInit ==
    \E p \in PdpTypes :
        MuxStart(NoRun) /\ SmsStart /\ SchedStart(ScheduleOff) /\ DialStart(p) /\ GwStart(<< >>)
        /\ PureStart

DialSpec == DialInit /\ [][DialNext]_vars

RECURSIVE IsPrefix(_, _)
IsPrefix(a, b) ==
    a = << >> \/ (b # << >> /\ Head(a) = Head(b) /\ IsPrefix(Tail(a), Tail(b)))

\* C19: a tick that finds a valid IP while is_connected is false submits
\* AT+CNMI=2,1,0,2,0, AT+CMGF=0, AT+CLIP=1 in this order and then calls the
\* network setup once; a tick that finds a valid IP while is_connected is
\* true submits none of them and does not call the setup, also when the last
\* setup call failed.
C19_SetupOncePerRisingEdge ==
    dial_tick.ip =>
        /\ dial_pc = "sleep" =>
              dial_log = IF dial_tick.was THEN << >> ELSE UrcSetup \o <<T_setup>>
        /\ dial_pc # "tick" => IsPrefix(dial_log, UrcSetup \o <<T_setup>>)
        /\ dial_pc # "tick" => is_connected

\* C19, witness: the setup call of the rising edge failed, and a later tick
\* found a valid IP with is_connected true and did nothing
C19_Witness ==
    /\ dial_pc = "sleep"
    /\ dial_tick = [ip |-> TRUE, was |-> TRUE]
    /\ dial_setup = "failed"
    /\ dial_log = << >>


(***************************************************************************)
(* The WebSocket gateway (src/server.rs): handle_client for a connection.  *)
(***************************************************************************)
G_Key == <<"k", "1">>
G_AuthGood == <<"{", "\"", "a", "u", "t", "h", "_", "k", "e", "y", "\"", ":", "\"", "k", "1", "\"", "}">>
G_AuthBad == <<"{", "\"", "a", "u", "t", "h", "_", "k", "e", "y", "\"", ":", "\"", "k", "2", "\"", "}">>
G_Command == <<"{", "\"", "c", "o", "m", "m", "a", "n", "d", "\"", ":", "\"", "A", "T", "\"", "}">>
G_Raw == <<"A", "T">>
G_Ping == <<"p", "i", "n", "g">>
G_Connect == <<"A", "T", "+", "C", "O", "N", "N", "E", "C", "T", "?">>
G_GetLogs == <<"G", "E", "T", "_", "S", "Y", "S", "_", "L", "O", "G", "S">>
G_ClearLogs == <<"C", "L", "E", "A", "R", "_", "S", "Y", "S", "_", "L", "O", "G", "S">>
G_Syscfgex == <<"A", "T", "^", "S", "Y", "S", "C", "F", "G", "E", "X", "=", "a", ",", "b", ",", "c", ",", "d", ",", "\"", "e", "\"", ",", "\"", "\"", ",", "\"", "\"", "O", "K", "\n">>
G_SyscfgexHead == <<"A", "T", "^", "S", "Y", "S", "C", "F", "G", "E", "X">>
G_EmptyPair == <<",", "\"", "\"", ",", "\"", "\"">>
G_OKText == <<"O", "K">>
G_AuthField == <<"a", "u", "t", "h", "_", "k", "e", "y">>
G_CommandField == <<"c", "o", "m", "m", "a", "n", "d">>
G_JsonConnect == <<"{", "\"", "c", "o", "m", "m", "a", "n", "d", "\"", ":", "\"", "A", "T", "+", "C", "O", "N", "N", "E", "C", "T", "?", "\"", "}">>
G_PaddedLogs == <<" ", "G", "E", "T", "_", "S", "Y", "S", "_", "L", "O", "G", "S", "\n">>
G_JsonPing == <<"{", "\"", "c", "o", "m", "m", "a", "n", "d", "\"", ":", "\"", "p", "i", "n", "g", "\"", "}">>
G_Payload == <<"+", "C", "G", "P", "A", "D", "D", "R", ":", " ", "1", ",", "\"", "1", "0", ".", "0", ".", "0", ".", "5", "\"">>
G_CmeError == <<"+", "C", "M", "E", " ", "E", "R", "R", "O", "R", ":", " ", "5", "0">>
G_ConnectData == <<"+", "C", "O", "N", "N", "E", "C", "T", ":", " ", "0", "\r", "\n", "O", "K">>

\* serde_json::from_str of a text that is an object with the one field name,
\* a string: the field's value, or nothing when the text is not of this form
ParseField(text, name) ==
    LET head == <<"{", "\"">> \o name \o <<"\"", ":", "\"">>
        value == SubSeq(text, Len(head) + 1, Len(text) - 2)
    IN  IF /\ Len(text) >= Len(head) + 2
           /\ StartsWith(text, head)
           /\ SubSeq(text, Len(text) - 1, Len(text)) = <<"\"", "}">>
           /\ \A i \in 1..Len(value) : value[i] \notin {"\"", "\\"}
        THEN <<value>>
        ELSE << >>

authenticated_any_key(text, key) == ParseField(text, G_AuthField) # << >>

\* let mut authenticated = false; if let Ok(auth_data) = from_str::<AuthMessage>(text)
\* { if &auth_data.auth_key == key { authenticated = true } }
authenticated(text, key) ==
    /\ ParseField(text, G_AuthField) # << >>
    /\ ParseField(text, G_AuthField)[1] = key

\* String::replace(pat, "")
RECURSIVE RemoveAll(_, _)
RemoveAll(t, pat) ==
    IF Len(t) < Len(pat) THEN t
    ELSE IF SubSeq(t, 1, Len(pat)) = pat THEN RemoveAll(SubSeq(t, Len(pat) + 1, Len(t)), pat)
    ELSE <<t[1]>> \o RemoveAll(Tail(t), pat)

\* parts[4].trim_matches('"')
trim_quotes(s) ==
    LET keep == {i \in 1..Len(s) : s[i] # "\""}
    IN  IF keep = {} THEN << >>
        ELSE SubSeq(s, CHOOSE i \in keep : \A j \in keep : i <= j,
                       CHOOSE i \in keep : \A j \in keep : j <= i)

\* the AT^SYSCFGEX filter of handle_client
sanitize(cmd_str) ==
    IF ~StartsWith(cmd_str, G_SyscfgexHead) THEN cmd_str
    ELSE LET flat == RemoveAll(RemoveAll(RemoveAll(cmd_str, <<"\n">>), <<"\r">>), G_OKText)
             parts == SplitComma(flat)
             shaped == IF Contains(flat, G_EmptyPair) /\ Len(parts) >= 5
                       THEN parts[1] \o <<",">> \o parts[2] \o <<",">> \o parts[3] \o <<",">>
                            \o parts[4] \o <<",", "\"">>
                            \o trim_quotes(parts[5])
                            \o <<"\"", ",", "\"", "\"", ",", "\"", "\"">>
                       ELSE flat
         IN  shaped \o <<"\r">>

cmd_of_raw(text) == text

\* json_cmd.command, or the text itself
cmd_of(text) ==
    IF ParseField(text, G_CommandField) # << >> THEN ParseField(text, G_CommandField)[1] ELSE text

keep_lines_all(ls, clean_cmd) == ls

\* data.lines().filter(|line| !line.trim().is_empty() && line.trim() != clean_cmd)
RECURSIVE keep_lines(_, _)
keep_lines(ls, clean_cmd) ==
    IF ls = << >> THEN << >>
    ELSE (IF Trim(Head(ls)) # << >> /\ Trim(Head(ls)) # clean_cmd THEN <<Head(ls)>> ELSE << >>)
         \o keep_lines(Tail(ls), clean_cmd)

\* lines.join("\r\n")
RECURSIVE join_crlf(_)
join_crlf(ls) ==
    IF ls = << >> THEN << >>
    ELSE IF Len(ls) = 1 THEN ls[1]
    ELSE ls[1] \o T_CRLF \o join_crlf(Tail(ls))

\* the WSResponse for a response of the multiplexer to cmd_str
ws_response(cmd_str, response) ==
    [type |-> "response", success |-> response.success,
     data |-> IF response.data = << >> THEN << >>
              ELSE <<join_crlf(keep_lines(lines(response.data[1]), Trim(cmd_str)))>>,
     error |-> response.error]

LocalReply(tag) == [type |-> tag]

\* the frames a client sends: texts, and a frame that is not text
Frames ==
    {[kind |-> "text", text |-> t] :
        t \in {G_AuthGood, G_AuthBad, G_Command, G_Raw, G_Ping, G_Connect, G_GetLogs,
               G_ClearLogs, G_Syscfgex, G_JsonConnect, G_PaddedLogs, G_JsonPing, D_CGPADDR}}
    \cup {[kind |-> "binary", text |-> << >>]}

\* what ws.next() under the 10 s timeout can give besides a frame
AuthEvents == {[kind |-> "timeout", text |-> << >>], [kind |-> "closed", text |-> << >>],
               [kind |-> "error", text |-> << >>]}

\* the multiplexer's responses to a forwarded command
\* the response send_command_and_wait gives for the lines ls the modem sends
\* after the command: the await loop's classification, line after line
RECURSIVE await_lines(_, _, _)
await_lines(ls, prefix, body) ==
    IF ls = << >> THEN ATResponse_error(T_Timeout)
    ELSE LET line == Head(ls)
             kind == Classify(line, prefix)
         IN  CASE kind = "urc" -> await_lines(Tail(ls), prefix, body)
               [] kind = "ok" -> ATResponse_ok(<<push_ok(body)>>)
               [] kind = "error" -> ATResponse_error(body \o line)
               [] kind = "prompt" -> ATResponse_ok(<<body \o line>>)
               [] kind = "body" -> await_lines(Tail(ls), prefix, body \o line \o T_CRLF)

\* what the modem sends for a command: its echo or not, a payload line or
\* not, a URC in between or not, and OK or an error line; the framer yields
\* no empty line
ModemOutputs(clean_cmd) ==
    {SelectSeq(o, LAMBDA l : l # << >>) :
        o \in {<<T_OK>>, <<clean_cmd, T_OK>>, <<clean_cmd, G_Payload, T_OK>>,
               <<G_Payload, clean_cmd, T_RING, T_OK>>, <<clean_cmd, G_CmeError>>, << >>}}

\* the authentication of handle_client: the first read and its match
GwAuth(ev) ==
    /\ gw_pc = "auth"
    /\ gw_first' = <<ev>>
    /\ gw_seen' = IF ev.kind \in {"text", "binary"} THEN gw_seen + 1 ELSE gw_seen
    /\ IF ev.kind = "text"
       THEN IF authenticated(ev.text, gw_key[1])
            THEN gw_pc' = "loop" /\ gw_out' = <<LocalReply("auth_ok")>>
            ELSE gw_pc' = "closed" /\ gw_out' = <<LocalReply("auth_failed")>>
       ELSE IF ev.kind = "timeout"
       THEN gw_pc' = "closed" /\ gw_out' = <<LocalReply("auth_timeout")>>
       ELSE gw_pc' = "closed" /\ UNCHANGED gw_out
    /\ UNCHANGED <<gw_key, gw_sub, notGw>>

\* the loop's branch for a frame of the client, up to sender.send of the
\* command when the frame is one
GwMessage(f) ==
    /\ gw_pc = "loop"
    /\ gw_seen < MaxFrames
    /\ gw_seen' = gw_seen + 1
    /\ LET cmd_str == cmd_of(f.text)
       IN  IF f.kind # "text" THEN UNCHANGED <<gw_pc, gw_sub, gw_out>>
           ELSE IF f.text = G_Ping
           THEN gw_out' = <<LocalReply("pong")>> /\ UNCHANGED <<gw_pc, gw_sub>>
           ELSE IF Trim(cmd_str) = G_Connect
           THEN /\ gw_out' = <<[type |-> "response", success |-> TRUE,
                                data |-> <<G_ConnectData>>, error |-> << >>]>>
                /\ UNCHANGED <<gw_pc, gw_sub>>
           ELSE IF Trim(cmd_str) = G_GetLogs
           THEN gw_out' = <<LocalReply("logs")>> /\ UNCHANGED <<gw_pc, gw_sub>>
           ELSE IF Trim(cmd_str) = G_ClearLogs
           THEN gw_out' = <<LocalReply("cleared")>> /\ UNCHANGED <<gw_pc, gw_sub>>
           ELSE /\ gw_sub' = Append(gw_sub, sanitize(cmd_str))
                /\ gw_pc' = "wait"
                /\ UNCHANGED gw_out
    /\ UNCHANGED <<gw_key, gw_first, notGw>>

\* resp_rx.await returns: the response goes to the client with the echo
\* filtered out, or "Internal Error" when the one-shot was dropped
GwResponse(dropped, out) ==
    /\ gw_pc = "wait"
    /\ gw_pc' = "loop"
    /\ gw_out' = IF dropped THEN <<LocalReply("internal_error")>>
                 ELSE LET cmd_str == gw_sub[Len(gw_sub)]
                          response == await_lines(out, expected_prefix(cmd_str), << >>)
                      IN  <<ws_response(cmd_str, response)>>
    /\ UNCHANGED <<gw_key, gw_first, gw_sub, gw_seen, notGw>>

\* the loop's branch for a log message: system_log to the client
GwLog ==
    /\ gw_pc = "loop"
    /\ gw_out # <<LocalReply("system_log")>>
    /\ gw_out' = <<LocalReply("system_log")>>
    /\ UNCHANGED <<gw_key, gw_pc, gw_first, gw_sub, gw_seen, notGw>>

\* the client is gone: rx.next() gives None or an error, or a send fails
GwClose ==
    /\ gw_pc = "loop"
    /\ gw_pc' = "closed"
    /\ UNCHANGED <<gw_key, gw_first, gw_sub, gw_out, gw_seen, notGw>>

GwNext ==
    \/ \E ev \in Frames \cup AuthEvents : GwAuth(ev)
    \/ \E f \in Frames : GwMessage(f)
    \/ /\ gw_pc = "wait"
       /\ \E dropped \in BOOLEAN :
              \E out \in ModemOutputs(Trim(gw_sub[Len(gw_sub)])) : GwResponse(dropped, out)
    \/ GwLog
    \/ GwClose

GwInit ==
    \E k \in {<< >>, <<G_Key>>} :
        MuxStart(NoRun) /\ SmsStart /\ SchedStart(ScheduleOff) /\ DialStart(T_ipv4v6) /\ GwStart(k)
        /\ PureStart

GwSpec == GwInit /\ [][GwNext]_vars

\* the connection's first message was the JSON {auth_key} with the configured key
SentKey ==
    /\ gw_first # << >>
    /\ gw_first[1].kind = "text"
    /\ gw_first[1].text = <<"{", "\"">> \o G_AuthField \o <<"\"", ":", "\"">> \o gw_key[1]
                          \o <<"\"", "}">>

\* a command of the client was answered
Answered == gw_out # << >> /\ gw_out[1].type \in {"response", "pong", "logs", "cleared", "internal_error"}

\* C20: with an auth key configured, nothing is submitted to the multiplexer
\* and no command is answered on a connection that has not sent the JSON
\* {auth_key} with the configured key; after a first message with another
\* key or that is no such JSON, or no message within the deadline, the
\* connection is ended with no command forwarded.
C20_NoCommandBeforeAuth ==
    gw_key # << >> =>
        /\ (gw_sub # << >> \/ Answered \/ gw_pc \in {"loop", "wait"}) => SentKey
        /\ (gw_first # << >> /\ ~SentKey) => (gw_pc = "closed" /\ gw_sub = << >>)

\* C20, witness: a key is configured, the first message carried another key,
\* the connection got "Authentication failed" and is closed
C20_Witness ==
    /\ gw_key = <<G_Key>>
    /\ gw_first = <<[kind |-> "text", text |-> G_AuthBad]>>
    /\ gw_pc = "closed"
    /\ gw_out = <<LocalReply("auth_failed")>>
    /\ gw_sub = << >>


\* the command a text message carries: the "command" of a JSON {command}, or
\* the text itself
Carried(text) ==
    IF ParseField(text, G_CommandField) # << >> THEN ParseField(text, G_CommandField)[1] ELSE text

\* a control message of the gateway: the word ping, or one of the three
\* commands the gateway serves itself
IsControl(text) ==
    \/ text = G_Ping
    \/ Trim(Carried(text)) \in {G_Connect, G_GetLogs, G_ClearLogs}

\* C21: handling ping, AT+CONNECT?, GET_SYS_LOGS or CLEAR_SYS_LOGS answers
\* the client and leaves the multiplexer's intake as it was, AT+CONNECT?
\* answering success with "+CONNECT: 0\r\nOK"; every other text message
\* makes exactly one submission to the multiplexer.
C21_ControlLocalOthersOnce ==
    [][\A f \in Frames :
          (GwMessage(f) /\ f.kind = "text") =>
              IF IsControl(f.text)
              THEN /\ gw_sub' = gw_sub
                   /\ gw_pc' = "loop"
                   /\ gw_out' # << >>
                   /\ (Trim(Carried(f.text)) = G_Connect /\ f.text # G_Ping) =>
                          gw_out' = <<[type |-> "response", success |-> TRUE,
                                       data |-> <<G_ConnectData>>, error |-> << >>]>>
                   /\ f.text = G_Ping => gw_out' = <<LocalReply("pong")>>
              ELSE /\ Len(gw_sub') = Len(gw_sub) + 1
                   /\ SubSeq(gw_sub', 1, Len(gw_sub)) = gw_sub]_vars

\* C21, witness: a command was forwarded, and after it AT+CONNECT? in a JSON
\* {command} was answered locally
C21_Witness ==
    /\ Len(gw_sub) = 1
    /\ gw_seen >= 2
    /\ gw_pc = "loop"
    /\ gw_out = <<[type |-> "response", success |-> TRUE,
                   data |-> <<G_ConnectData>>, error |-> << >>]>>


\* the lines of a body the claim keeps: not empty, and not the trimmed command
Stripped(body, cmd_str) == SelectSeq(lines(body), LAMBDA l : l # << >> /\ l # Trim(cmd_str))

\* the data delivered for every response with a body is the body without its
\* empty lines and its echo lines, the other lines in order
EchoStripped ==
    \A out \in ModemOutputs(Trim(gw_sub[Len(gw_sub)])) :
        LET cmd_str == gw_sub[Len(gw_sub)]
            response == await_lines(out, expected_prefix(cmd_str), << >>)
        IN  (GwResponse(FALSE, out) /\ response.data # << >>) =>
                /\ gw_out'[1].data # << >>
                /\ lines(gw_out'[1].data[1]) = Stripped(response.data[1], cmd_str)

\* the data delivered for AT+CGPADDR when the modem sends its echo, the
\* address line and OK is the text delivered
CgpaddrDelivers(delivered) ==
    (/\ gw_pc = "wait"
     /\ gw_sub[Len(gw_sub)] = D_CGPADDR
     /\ GwResponse(FALSE, <<D_CGPADDR, G_Payload, T_OK>>)) =>
        gw_out'[1].data = <<delivered>>

FrAlphabet == {"A", " ", CR, LF}

FrInputs == UNION {[1..n -> FrAlphabet] : n \in 0..MaxBuf}

\* the buffer as the framer takes it
FrBytes(text) == [i \in 1..Len(text) |-> [c |-> text[i], t |-> 0]]

\* one call of extract_next_line on the buffer
FrExtract ==
    /\ ~fr_none
    /\ LET e == extract_next_line(FrBytes(fr_buf))
       IN  /\ fr_buf' = Chars(e.rest)
           /\ fr_out' = IF e.found THEN Append(fr_out, e.line) ELSE fr_out
           /\ fr_none' = ~e.found
    /\ UNCHANGED <<fr_in, notFr>>

FrNext == FrExtract

FrInit ==
    \E b \in FrInputs :
        /\ MuxStart(NoRun) /\ SmsStart /\ SchedStart(ScheduleOff) /\ DialStart(T_ipv4v6)
        /\ GwStart(<< >>) /\ FrStart(b) /\ PduStart(<< >>)

FrSpec == FrInit /\ [][FrNext]_vars

\* the yielded lines, LF after each
RECURSIVE WithLF(_)
WithLF(ls) == IF ls = << >> THEN << >> ELSE Head(ls) \o <<LF>> \o WithLF(Tail(ls))

\* the input without its empty lines: the LF-ended lines of no bytes dropped
RECURSIVE WithoutEmptyLines(_)
WithoutEmptyLines(text) ==
    LET lfs == {i \in 1..Len(text) : text[i] = LF}
    IN  IF lfs = {} THEN text
        ELSE LET pos == CHOOSE i \in lfs : \A j \in lfs : i <= j
                 rest == WithoutEmptyLines(SubSeq(text, pos + 1, Len(text)))
             IN  IF pos = 1 THEN rest ELSE SubSeq(text, 1, pos) \o rest

\* the input with every LF-ended line trimmed of its leading and trailing
\* whitespace, and the lines left empty by that dropped
RECURSIVE TrimmedLines(_)
TrimmedLines(text) ==
    LET lfs == {i \in 1..Len(text) : text[i] = LF}
    IN  IF lfs = {} THEN text
        ELSE LET pos == CHOOSE i \in lfs : \A j \in lfs : i <= j
                 line == Trim(SubSeq(text, 1, pos - 1))
                 rest == TrimmedLines(SubSeq(text, pos + 1, Len(text)))
             IN  IF line = << >> THEN rest ELSE line \o <<LF>> \o rest

\* every yielded line is non-empty; a call on a buffer without LF returns
\* none, yields nothing and leaves the buffer as it is
FramerSteps ==
    /\ \A i \in 1..Len(fr_out') : fr_out'[i] # << >>
    /\ (\A i \in 1..Len(fr_buf) : fr_buf[i] # LF) =>
           (fr_none' /\ fr_buf' = fr_buf /\ fr_out' = fr_out)

\* C23 as stated: once a call has returned none, the yielded lines with LF
\* after each, followed by the residual buffer, are the input with its empty
\* lines removed; every yielded line is non-empty; a call on a buffer
\* without LF returns none and leaves the buffer unchanged.
C23_RoundTripEmptyLines ==
    [][FrExtract => /\ FramerSteps
                    /\ fr_none' => WithLF(fr_out') \o fr_buf' = WithoutEmptyLines(fr_in)]_vars

\* C23, amended: once a call has returned none, the yielded lines with LF
\* after each, followed by the residual buffer, are the input with every
\* LF-ended line trimmed of leading and trailing whitespace and the lines
\* left empty by that removed; every yielded line is non-empty; a call on a
\* buffer without LF returns none and leaves the buffer unchanged.
C23_RoundTripTrimmedLines ==
    [][FrExtract => /\ FramerSteps
                    /\ fr_none' => WithLF(fr_out') \o fr_buf' = TrimmedLines(fr_in)]_vars

\* C23, witness: a line ended by CR LF and an empty line were framed, a
\* partial line is left in the buffer, and the last call returned none
C23_Witness ==
    /\ fr_in = <<"A", CR, LF, LF, "A">>
    /\ fr_out = <<<<"A">>>>
    /\ fr_buf = <<"A">>
    /\ fr_none


(***************************************************************************)
(* The PDU decoder (src/pdu.rs).  Bytes are 0..255, a hex string is a      *)
(* sequence of characters, a decoded text is a sequence of code points.    *)
(***************************************************************************)
HexUpper == <<"0", "1", "2", "3", "4", "5", "6", "7", "8", "9", "A", "B", "C", "D", "E", "F">>
HexLower == <<"0", "1", "2", "3", "4", "5", "6", "7", "8", "9", "a", "b", "c", "d", "e", "f">>

\* hex_nibble: the value, or -1 for None
hex_nibble(c) ==
    IF \E i \in 1..16 : HexUpper[i] = c THEN (CHOOSE i \in 1..16 : HexUpper[i] = c) - 1
    ELSE IF \E i \in 1..16 : HexLower[i] = c THEN (CHOOSE i \in 1..16 : HexLower[i] = c) - 1
    ELSE -1

PduErr(e) == [ok |-> FALSE, err |-> e, sms |-> << >>]

\* hex_to_bytes from index i on (1-based), out the bytes so far
RECURSIVE hex_from(_, _, _)
hex_from(s, i, out) ==
    IF i > Len(s) THEN [ok |-> TRUE, err |-> "", bytes |-> out]
    ELSE IF s[i] \in {" ", "\t", "\n", "\r", "\f"} THEN hex_from(s, i + 1, out)
    ELSE IF i + 1 > Len(s) THEN [ok |-> FALSE, err |-> "odd length hex string", bytes |-> << >>]
    ELSE IF hex_nibble(s[i]) < 0 \/ hex_nibble(s[i + 1]) < 0
         THEN [ok |-> FALSE, err |-> "invalid hex", bytes |-> << >>]
    ELSE hex_from(s, i + 2, Append(out, hex_nibble(s[i]) * 16 + hex_nibble(s[i + 1])))

hex_to_bytes(s) == hex_from(s, 1, << >>)

\* gsm_alphabet(): the code points of the table, in order
gsm_alphabet == <<
     64, 163, 36, 165, 232, 233, 249, 236, 242, 199, 10, 216, 248, 13, 197, 229,
     916, 95, 934, 915, 923, 937, 928, 936, 931, 920, 926, 27, 198, 230, 223, 201,
     32, 33, 34, 35, 164, 37, 38, 39, 40, 41, 42, 43, 44, 45, 46, 47,
     48, 49, 50, 51, 52, 53, 54, 55, 56, 57, 58, 59, 60, 61, 62, 63,
     161, 65, 66, 67, 68, 69, 70, 71, 72, 73, 74, 75, 76, 77, 78, 79,
     80, 81, 82, 83, 84, 85, 86, 87, 88, 89, 90, 196, 214, 209, 220, 167,
     191, 97, 98, 99, 100, 101, 102, 103, 104, 105, 106, 107, 108, 109, 110, 111,
     112, 113, 114, 115, 116, 117, 118, 119, 120, 121, 122, 228, 246, 241, 252, 224>>

\* decode_7bit's loop over the bytes: the septets unpacked so far, tmp, shift
RECURSIVE septets(_, _, _, _)
septets(bytes, tmp, shift, result) ==
    IF shift >= 7 THEN septets(bytes, tmp \div 128, shift - 7, Append(result, tmp % 128))
    ELSE IF bytes = << >> THEN [result |-> result, tmp |-> tmp, shift |-> shift]
    ELSE septets(Tail(bytes), (tmp + Head(bytes) * 2 ^ shift) % 65536, shift + 8, result)

decode_7bit(encoded_bytes, length) ==
    LET u == septets(encoded_bytes, 0, 0, << >>)
        result == IF u.shift > 0 /\ Len(u.result) < length
                  THEN Append(u.result, u.tmp % 128) ELSE u.result
        taken == SubSeq(result, 1, IF Len(result) < length THEN Len(result) ELSE length)
    IN  [i \in 1..Len(taken) |->
            IF taken[i] < Len(gsm_alphabet) THEN gsm_alphabet[taken[i] + 1] ELSE 63]

\* the 16-bit units of decode_ucs2
RECURSIVE units_of(_)
units_of(bytes) ==
    IF Len(bytes) < 2 THEN << >>
    ELSE <<bytes[1] * 256 + bytes[2]>> \o units_of(SubSeq(bytes, 3, Len(bytes)))

\* std::char::decode_utf16, an unpaired surrogate giving '?'
RECURSIVE decode_utf16(_)
decode_utf16(units) ==
    IF units = << >> THEN << >>
    ELSE LET u == Head(units)
         IN  IF u < 55296 \/ u > 57343 THEN <<u>> \o decode_utf16(Tail(units))
             ELSE IF u >= 56320 THEN <<63>> \o decode_utf16(Tail(units))
             ELSE IF Len(units) >= 2 /\ units[2] >= 56320 /\ units[2] <= 57343
                  THEN <<65536 + (u - 55296) * 1024 + (units[2] - 56320)>>
                       \o decode_utf16(SubSeq(units, 3, Len(units)))
             ELSE <<63>> \o decode_utf16(Tail(units))

decode_ucs2(encoded_bytes) == decode_utf16(units_of(encoded_bytes))

bcd_swap(byte) == ((byte % 16) * 10 + byte \div 16) % 256

\* NaiveDate::from_ymd_opt and NaiveTime::from_hms_opt give Some
IsLeap(year) == (year % 4 = 0 /\ year % 100 # 0) \/ year % 400 = 0
DaysIn(year, mm) ==
    IF mm = 2 THEN (IF IsLeap(year) THEN 29 ELSE 28)
    ELSE IF mm \in {4, 6, 9, 11} THEN 30 ELSE 31
from_ymd_opt(year, mm, dd) == mm \in 1..12 /\ dd >= 1 /\ dd <= DaysIn(year, mm)
from_hms_opt(hh, mi, ss) == hh < 24 /\ mi < 60 /\ ss < 60

\* a DateTime: the calendar fields read from the PDU, or the clock's reading
StampOf(year, mm, dd, hh, mi, ss) ==
    [read |-> TRUE, fields |-> <<year, mm, dd, hh, mi, ss>>, at |-> 0]
StampNow(now) == [read |-> FALSE, fields |-> << >>, at |-> now]

\* a decoder that reads the clock whatever the bytes are
decode_timestamp_now(timestamp_bytes, now) == StampNow(now)

\* decode_timestamp, chrono::Utc::now() reading now
decode_timestamp(timestamp_bytes, now) ==
    IF Len(timestamp_bytes) < 7 THEN StampNow(now)
    ELSE LET yy == bcd_swap(timestamp_bytes[1])
             mm == bcd_swap(timestamp_bytes[2])
             dd == bcd_swap(timestamp_bytes[3])
             hh == bcd_swap(timestamp_bytes[4])
             mi == bcd_swap(timestamp_bytes[5])
             ss == bcd_swap(timestamp_bytes[6])
             year == 2000 + yy
         IN  IF from_ymd_opt(year, mm, dd) /\ from_hms_opt(hh, mi, ss)
             THEN StampOf(year, mm, dd, hh, mi, ss)
             ELSE StampNow(now)

\* decode_number's loop
RECURSIVE number_from(_, _, _)
number_from(number_bytes, number_length, number) ==
    IF number_bytes = << >> THEN number
    ELSE LET d1 == Head(number_bytes) % 16
             d2 == Head(number_bytes) \div 16
             n1 == IF d1 <= 9 THEN Append(number, DigitChar(d1)) ELSE number
             n2 == IF Len(n1) < number_length /\ d2 <= 9 THEN Append(n1, DigitChar(d2)) ELSE n1
         IN  number_from(Tail(number_bytes), number_length, n2)

decode_number(number_bytes, number_length) == number_from(number_bytes, number_length, << >>)

\* the concatenation header of the user data, Option<PartialInfo>
partial_info_of(pdu_type, data_bytes) ==
    IF (pdu_type \div 64) % 2 = 1 /\ data_bytes # << >>
          /\ Len(data_bytes) >= data_bytes[1] + 1 /\ Len(data_bytes) >= 6
    THEN IF data_bytes[2] = 0
         THEN <<[reference |-> data_bytes[4], parts_count |-> data_bytes[5],
                 part_number |-> data_bytes[6]]>>
         ELSE IF data_bytes[2] = 8 /\ Len(data_bytes) >= 7
         THEN <<[reference |-> data_bytes[4] * 256 + data_bytes[5],
                 parts_count |-> data_bytes[6], part_number |-> data_bytes[7]]>>
         ELSE << >>
    ELSE << >>

\* read_incoming_sms, chrono::Utc::now() reading now
read_incoming_sms(pdu_hex, now) ==
    LET hb == hex_to_bytes(pdu_hex)
        b == hb.bytes
        n == Len(b)
        p1 == 1 + b[1]
        pdu_type == b[p1 + 1]
        p2 == p1 + 1
        sender_length == b[p2 + 1]
        sender_type == b[p2 + 2]
        p3 == p2 + 2
        sender_bytes_len == (sender_length + 1) \div 2
        digits == decode_number(SubSeq(b, p3 + 1, p3 + sender_bytes_len), sender_length)
        sender == IF sender_type = 145 /\ ~StartsWith(digits, <<"+">>)
                  THEN <<"+">> \o digits ELSE digits
        p4 == p3 + sender_bytes_len
        p5 == p4 + 1
        dcs == b[p5 + 1]
        is_ucs2 == dcs % 16 = 8
        p6 == p5 + 1
        timestamp == decode_timestamp(SubSeq(b, p6 + 1, p6 + 7), now)
        p7 == p6 + 7
        data_length == b[p7 + 1]
        data_bytes == SubSeq(b, p7 + 2, n)
        udh_length == IF (pdu_type \div 64) % 2 = 1 /\ data_bytes # << >>
                      THEN data_bytes[1] + 1 ELSE 0
        content_bytes == IF udh_length <= Len(data_bytes)
                         THEN SubSeq(data_bytes, udh_length + 1, Len(data_bytes)) ELSE << >>
        content == IF is_ucs2 THEN decode_ucs2(content_bytes)
                   ELSE decode_7bit(content_bytes, data_length)
    IN  IF ~hb.ok THEN PduErr(hb.err)
        ELSE IF n = 0 THEN PduErr("empty pdu")
        ELSE IF p1 >= n THEN PduErr("invalid pdu")
        ELSE IF p2 + 2 > n THEN PduErr("invalid sender header")
        ELSE IF p3 + sender_bytes_len > n THEN PduErr("invalid sender length")
        ELSE IF p4 + 1 > n THEN PduErr("invalid pid")
        ELSE IF p5 + 1 > n THEN PduErr("invalid dcs")
        ELSE IF p6 + 7 > n THEN PduErr("invalid timestamp")
        ELSE IF p7 + 1 > n THEN PduErr("invalid udl")
        ELSE [ok |-> TRUE, err |-> "",
              sms |-> <<[sender |-> sender, content |-> content, date |-> timestamp,
                         partial_info |-> partial_info_of(pdu_type, data_bytes)]>>]


\* the hex string of bytes: how the modem prints a PDU
RECURSIVE HexOf(_)
HexOf(bytes) ==
    IF bytes = << >> THEN << >>
    ELSE <<HexUpper[(Head(bytes) \div 16) + 1], HexUpper[(Head(bytes) % 16) + 1]>> \o HexOf(Tail(bytes))

\* service-centre time stamps: 2024-01-15 10:20:30 and 2024-02-29 23:59:59
\* are dates and times; 2023-02-29, month 0 and hour 25 are not
GoodStamps == {<<66, 16, 81, 1, 2, 3, 0>>, <<66, 32, 146, 50, 149, 149, 128>>}
BadStamps == {<<50, 32, 146, 1, 2, 3, 0>>, <<66, 0, 81, 1, 2, 3, 0>>, <<66, 16, 81, 82, 2, 3, 0>>}

\* the user data: its length, the concatenation header when the type has
\* one, and two characters in the alphabet of the coding scheme
UserData(pdu_type, dcs) ==
    LET header == IF (pdu_type \div 64) % 2 = 1 THEN <<5, 0, 3, Ref, 2, 1>> ELSE << >>
        text == IF dcs % 16 = 8 THEN <<79, 96, 216, 0>> ELSE <<232, 52>>
    IN  <<IF dcs % 16 = 8 THEN Len(header) + Len(text) ELSE 2>> \o header \o text

\* a deliver PDU: no service centre, a three-digit sender, the fields given
PduBytes(pdu_type, sender_type, dcs, stamp) ==
    <<0, pdu_type, 3, sender_type, 33, 243, 0, dcs>> \o stamp \o UserData(pdu_type, dcs)

PduOf(stamps) ==
    {HexOf(PduBytes(t, st, d, ts)) : t \in {4, 68}, st \in {129, 145}, d \in {0, 8}, ts \in stamps}

\* a PDU cut short in its time stamp, and one with a hex digit missing
CutPdus ==
    LET whole == HexOf(PduBytes(4, 145, 0, <<66, 16, 81, 1, 2, 3, 0>>))
    IN  {SubSeq(whole, 1, 24), SubSeq(whole, 1, Len(whole) - 1)}

PduPool == PduOf(GoodStamps) \cup PduOf(BadStamps) \cup CutPdus

\* read_incoming_sms is called on the PDU for the first time
PduDecode ==
    /\ pdu_in # << >>
    /\ pdu_first = << >>
    /\ pdu_first' = <<read_incoming_sms(pdu_in, pdu_now)>>
    /\ UNCHANGED <<pdu_in, pdu_now, pdu_again, notPdu>>

\* time passes
PduClock ==
    /\ pdu_in # << >>
    /\ pdu_now < MaxPduNow
    /\ pdu_now' = pdu_now + 1
    /\ UNCHANGED <<pdu_in, pdu_first, pdu_again, notPdu>>

\* read_incoming_sms is called on the same PDU again
PduDecodeAgain ==
    /\ pdu_first # << >>
    /\ pdu_again' = <<read_incoming_sms(pdu_in, pdu_now)>>
    /\ pdu_again' # pdu_again
    /\ UNCHANGED <<pdu_in, pdu_now, pdu_first, notPdu>>

PduNext == PduDecode \/ PduClock \/ PduDecodeAgain

PduInit ==
    \E p \in PduPool :
        /\ MuxStart(NoRun) /\ SmsStart /\ SchedStart(ScheduleOff) /\ DialStart(T_ipv4v6)
        /\ GwStart(<< >>) /\ FrStart(<< >>) /\ PduStart(p)

PduSpec == PduInit /\ [][PduNext]_vars

\* C24 as stated: a PDU that was decoded to a record decodes to an equal
\* record whenever it is decoded again.
C24_DecodeRepeatable ==
    (pdu_first # << >> /\ pdu_first[1].ok /\ pdu_again # << >>) => pdu_again = pdu_first

\* C24, amended: a PDU whose time stamp is a date and a time of day, and that
\* was decoded to a record, decodes to an equal record whenever it is decoded
\* again.
C24_DecodeRepeatableGoodStamp ==
    (pdu_in \in PduOf(GoodStamps) /\ pdu_first # << >> /\ pdu_again # << >>) =>
        (pdu_first[1].ok /\ pdu_again = pdu_first)

\* C24, witness: a part of a concatenated message with a good time stamp was
\* decoded, and decoded again after the clock had moved
C24_Witness ==
    /\ pdu_in \in PduOf(GoodStamps)
    /\ pdu_now = MaxPduNow
    /\ pdu_first # << >>
    /\ pdu_first[1].ok
    /\ pdu_first[1].sms[1].partial_info # << >>
    /\ pdu_first[1].sms[1].date.read
    /\ pdu_again = pdu_first


(***************************************************************************)
(* The await loop's reading of the lines of a transaction.                 *)
(***************************************************************************)
\* the line the await loop takes next from the buffer
AwaitedLine == extract_next_line(buffer).line

\* the await loop takes a line and the transaction ends by way via
EndsBy(via) == pc = "AwaitLines" /\ last' # last /\ last'.via = via

\* C25: when a transaction ends on a line containing ERROR, the failure
\* response's error description is that line and nothing else, whatever
\* lines preceded it in the transaction.
C25_ErrorIsExactLine ==
    [][EndsBy("error") => last'.resp = <<ATResponse_error(AwaitedLine)>>]_vars


\* the await loop takes a line from the buffer
LineTaken == pc = "AwaitLines" /\ buffer' # buffer

\* the transaction in flight ends with the response resp
EndsWith(resp) == last'.id = cur /\ last.id # cur /\ last'.resp = <<resp>> /\ pc' = "Idle"

\* C26: a line of the await loop that is not diverted as a URC is read in
\* this order: the exact line OK ends the transaction with success;
\* otherwise a line containing ERROR ends it with failure; otherwise a line
\* starting with > ends it with success; any other line is appended to the
\* body with CR LF and the transaction goes on.  What follows the terminator
\* in the buffer is not part of the response.
C26_ClassificationOrder ==
    [][(LineTaken /\ framed' = framed) =>
          /\ buffer' = extract_next_line(buffer).rest
          /\ IF AwaitedLine = T_OK
             THEN EndsWith(ATResponse_ok(<<response_data.text \o T_OK>>))
             ELSE IF Contains(AwaitedLine, T_ERROR)
             THEN /\ last'.id = cur /\ last.id # cur /\ pc' = "Idle"
                  /\ ~last'.resp[1].success
             ELSE IF StartsWith(AwaitedLine, T_PROMPT)
             THEN EndsWith(ATResponse_ok(<<response_data.text \o AwaitedLine>>))
             ELSE /\ last' = last
                  /\ cur' = cur
                  /\ pc' \in {"Await", "AwaitLines"}
                  /\ response_data'.text = response_data.text \o AwaitedLine \o T_CRLF]_vars

\* C26, witness: a transaction ended with success on OK while the line read
\* with it is still in the buffer
C26_Witness ==
    /\ budget.rich
    /\ last.via = "ok"
    /\ last.resp = <<ATResponse_ok(<<T_OK>>)>>
    /\ pc = "Idle"
    /\ extract_next_line(buffer).found
    /\ extract_next_line(buffer).line = T_INFO


(***************************************************************************)
(* The pre-drain of a transaction and the idle loop.                       *)
(***************************************************************************)
\* the classifier marks the line as URC
MarkedUrc(line) == \E h \in 1..NumHandlers : can_handle(h, line)

\* the line went to the URC bus as its newest message
HandedToUrcBus(line) ==
    /\ framed' = framed + 1
    /\ urc_q' = Append(urc_q, [line |-> line, id |-> framed + 1])

\* C27: when a command's bytes are written the read buffer is empty and the
\* body is empty; before that, every complete line of the pre-drain has been
\* taken, a line the classifier marks URC handed to the URC bus and not to
\* the broadcast bus, any other line dropped; what is left is discarded.
C27_PreDrain ==
    [][/\ (pc = "Send" /\ calls'[cur].st = "written") =>
              (buffer' = << >> /\ response_data' = NoResponse /\ pc' = "Await")
       /\ (pc # "Send" /\ pc' = "Send") => ~extract_next_line(buffer').found
       /\ (pc = "DrainLines" /\ buffer' # buffer) =>
              /\ buffer' = extract_next_line(buffer).rest
              /\ bus' = bus
              /\ response_data' = response_data
              /\ last' = last
              /\ IF MarkedUrc(extract_next_line(buffer).line)
                 THEN HandedToUrcBus(extract_next_line(buffer).line)
                 ELSE urc_q' = urc_q /\ framed' = framed]_vars

\* C27, witness: a command is written with the buffer empty after a URC line
\* of the pre-drain went to the URC bus and not to the broadcast bus
C27_Witness ==
    /\ pc = "Await"
    /\ cur # 0
    /\ calls[cur].st = "written"
    /\ calls[cur].from = "ext"
    /\ buffer = << >>
    /\ framed = 1
    /\ bus = << >>


(***************************************************************************)
(* The expected prefix of a command and the lines that start with it.      *)
(***************************************************************************)
\* <X> of a command AT<X>[?|=...]: what follows AT up to the first ? or =;
\* empty when the command does not start with AT
RECURSIVE UpToMark(_)
UpToMark(t) ==
    IF t = << >> \/ Head(t) \in {"?", "="} THEN << >> ELSE <<Head(t)>> \o UpToMark(Tail(t))

PrefixOf(cmd) == IF StartsWith(cmd, T_AT) THEN UpToMark(Tail(Tail(cmd))) ELSE << >>

\* the commands of callers and handlers, and the prefix of each
PrefixTable ==
    {<<C_AT, << >> >>, <<C_NoAT, << >> >>, <<C_CLIPQ, <<"+", "C", "L", "I", "P">>>>,
     <<C_CMGR \o <<"1">>, <<"+", "C", "M", "G", "R">>>>, <<C_MONSC, <<"^", "M", "O", "N", "S", "C">>>>}

\* C28: the expected prefix of AT<X>[?|=...] is <X>, empty when the command
\* does not start with AT or nothing follows AT; in the await loop a line
\* that starts with a non-empty expected prefix is response content, added
\* to the body and sent to neither the URC bus nor the broadcast bus, even
\* when a URC predicate accepts it; with an empty prefix such a line is
\* diverted.
C28_ExpectedPrefix ==
    [][/\ \A e \in PrefixTable : expected_prefix(e[1]) = e[2] /\ PrefixOf(e[1]) = e[2]
       /\ (LineTaken /\ MarkedUrc(AwaitedLine)) =>
              IF PrefixOf(calls[cur].cmd) # << >>
                    /\ StartsWith(AwaitedLine, PrefixOf(calls[cur].cmd))
              THEN /\ urc_q' = urc_q /\ framed' = framed /\ bus' = bus
                   /\ response_data'.text = response_data.text \o AwaitedLine \o T_CRLF
              ELSE /\ HandedToUrcBus(AwaitedLine)
                   /\ response_data'.text = response_data.text]_vars

\* the text +CLIP?, which has no expected prefix, ended with the +CLIP: line
\* of its answer diverted to the URC bus
NoPrefixDiverted ==
    /\ last.cmd = C_NoAT
    /\ last.resp = <<ATResponse_ok(<<T_OK>>)>>
    /\ framed = 1

\* C28, witness: AT+CLIP? ended with the +CLIP: line in its body and nothing
\* on the URC bus or the broadcast bus
C28_Witness ==
    /\ last.cmd = C_CLIPQ
    /\ last.resp = <<ATResponse_ok(<<L_CLIP1 \o T_CRLF \o T_OK>>)>>
    /\ framed = 0
    /\ bus = << >>


\* C29: while no command is in flight every framed line is classified: a URC
\* line goes once to the URC bus and once, as raw_data, to the broadcast
\* bus; any other line is dropped and reaches no caller and no bus.
C29_IdleLines ==
    [][(pc = "IdleLines" /\ buffer' # buffer) =>
          /\ buffer' = extract_next_line(buffer).rest
          /\ calls' = calls
          /\ last' = last
          /\ response_data' = response_data
          /\ IF MarkedUrc(extract_next_line(buffer).line)
             THEN /\ HandedToUrcBus(extract_next_line(buffer).line)
                  /\ bus' # << >>
                  /\ bus'[Len(bus')] =
                         [type |-> "raw_data", data |-> extract_next_line(buffer).line]
                  /\ Len(bus') = IF Len(bus) < BusCap THEN Len(bus) + 1 ELSE BusCap
                  /\ \A i \in 1..(Len(bus') - 1) : bus'[i] = bus[i + 1 + Len(bus) - Len(bus')]
             ELSE urc_q' = urc_q /\ framed' = framed /\ bus' = bus]_vars

\* C29, witness: with no command submitted, a RING line was framed and is on
\* the URC bus and on the broadcast bus, once each
C29_Witness ==
    /\ calls = << >>
    /\ pc = "Idle"
    /\ framed = 1
    /\ urc_q = <<[line |-> T_RING, id |-> 1]>>
    /\ bus = <<[type |-> "raw_data", data |-> T_RING]>>

\* an idle line that no URC predicate accepts was dropped: the line read with
\* the terminator of a command is gone and no bus has it
IdleLineDropped ==
    /\ budget.rich
    /\ last.via = "ok"
    /\ last.resp = <<ATResponse_ok(<<T_OK>>)>>
    /\ pc = "Idle"
    /\ buffer = << >>
    /\ wire = << >>
    /\ modemQ = << >>
    /\ framed = 0
    /\ bus = << >>


(***************************************************************************)
(* The new-SMS handler: read, process, delete.                             *)
(***************************************************************************)
\* a handler submits a command in this step: the newest call
Submitted == Len(calls') = Len(calls) + 1 /\ calls'[Len(calls')].from = "urc"

\* the new-SMS handler returns in this step
NewSmsReturns ==
    /\ worker.h = H_NewSMS
    /\ worker.pc = "wait"
    /\ worker'.pc # "wait" \/ worker'.h # H_NewSMS

\* the handler reads with AT+CMGR=<index> of its line, and submits
\* AT+CMGD=<index> of the same line only when the response to the read has
\* come back and was taken
ReadThenDelete ==
    /\ (Submitted /\ worker.pc = "dispatch" /\ worker.h = H_NewSMS) =>
           calls'[Len(calls')].cmd = C_CMGR \o CmtiIndex(worker.line)
    /\ (Submitted /\ StartsWith(calls'[Len(calls')].cmd, C_CMGD)) =>
           /\ worker.h = H_NewSMS
           /\ worker.pc = "wait"
           /\ worker.stage = 1
           /\ calls[worker.wait].st = "ended"
           /\ calls'[Len(calls')].cmd = C_CMGD \o CmtiIndex(worker.line)

\* C30: for a +CMTI URC the handler submits AT+CMGR=<index>, waits for the
\* response, processes the PDU and only then submits AT+CMGD=<index>; when
\* the handler has processed a +CMTI URC whose index parsed, the delete for
\* that index has been submitted.
C30_ReadProcessDelete ==
    [][/\ ReadThenDelete
       /\ (NewSmsReturns /\ CmtiIndex(worker.line) # << >>) => worker.stage = 2]_vars

\* the order alone: read, response, then delete with the same index
ReadBeforeDelete == [][ReadThenDelete]_vars

\* the handler returned after both commands
DeletedAfterRead ==
    /\ handled.line = L_CMTI1
    /\ worker.pc = "recv"
    /\ last.cmd = C_CMGD \o <<"1">>
    /\ last.via = "ok"

(***************************************************************************)
(* C31: the age of a partial-SMS cache entry.                              *)
(***************************************************************************)
\* the key of a fragment
KeyOf(sms) == sms_key(sms.sender, sms.partial_info[1].reference)

\* C31: a call of process_sms with a fragment leaves the entry of the
\* fragment's key, when it leaves one, with the time of this call as its
\* recorded time (the record is the time of the last update); it evicts every
\* entry of another key recorded an hour ago or more and keeps every entry of
\* another key recorded less than an hour ago.
C31_AgedByLastUpdate ==
    [][\A sms \in SmsPool : Processes(sms) =>
          /\ \A en \in sms_cache' : en.key = KeyOf(sms) => en.ts = sms_now
          /\ \A en \in sms_cache : en.key # KeyOf(sms) =>
                (en \in sms_cache' <=> sms_now - en.ts < MaxAge)]_vars

\* the parts 1..MaxPart of a message, half an hour apart, at the current
\* state: every part arrives less than an hour after the part before it
C31_RecentGroupCompletes ==
    ~HasKey(retain(sms_cache, sms_now), sms_key(Sender5, Ref)) =>
        Feed(sms_cache, sms_now, ClockStep, Ascending(MaxPart), Parts(Sender5, Ref, MaxPart, "a"))
          = <<Notification(Sender5, PartText("a", 1) \o PartText("a", 2) \o PartText("a", 3))>>

(***************************************************************************)
(* C32: recovery after the loss of service.                                *)
(***************************************************************************)
\* the commands of unlock_all, all steps run
Unlock(config) ==
    UnlockCommand(config, 1) \o UnlockCommand(config, 2)
    \o UnlockCommand(config, 3) \o UnlockCommand(config, 4)

\* the step starts a recovery
RecoveryStarts == sched_log.kind # "recover" /\ sched_log'.kind = "recover"

\* the recovery of this tick has returned
RecoveryDone == sched_pc = "sleep" /\ sched_log.kind = "recover"

\* a status query of the tick returns Err
StatusQueryFails ==
    \/ \E data \in CregData : SchedCreg(TRUE, data)
    \/ \E data \in CeregData : SchedCereg(TRUE, data)

\* the recovery of a tick submitted the whole unlock sequence and the timer
\* is reset
C32_RecoveryRunsFullSequence ==
    RecoveryDone => sched_log.cmds = Unlock(sched_cfg) /\ sched_since = 0

\* a recovery starts only on a tick whose queries both answered without
\* state 1 or 5, the timer at the timeout or beyond; a query that reports
\* state 1 or 5 resets the timer; a tick whose query returns Err changes
\* neither the timer nor the lock
C32_RecoveryTiming ==
    [][/\ RecoveryStarts =>
            /\ sched_since >= sched_cfg.timeout
            /\ \E data \in CeregData : ~CeregService(data) /\ SchedCereg(FALSE, data)
       /\ \A data \in CregData : (CregService(data) /\ SchedCreg(FALSE, data)) => sched_since' = 0
       /\ \A data \in CeregData : (CeregService(data) /\ SchedCereg(FALSE, data)) => sched_since' = 0
       /\ StatusQueryFails =>
            /\ UNCHANGED <<sched_since, sched_current, sched_log>>
            /\ sched_pc' = "sleep"]_vars

\* C32: the service timer is reset by a tick on which AT+CREG? or AT+CEREG?
\* reports state 1 or 5; on a tick where neither does and the timer has
\* reached the timeout the controller runs the whole unlock sequence
\* (AT+CFUN=0, AT^LTEFREQLOCK=0, AT^NRFREQLOCK=0, AT+CFUN=1 with airplane
\* toggling) and resets the timer, so that two recoveries are at least the
\* timeout apart; a tick whose status query fails changes neither the timer
\* nor the lock.
C32_ServiceLossRecovery ==
    /\ C32_RecoveryRunsFullSequence
    /\ (sched_pc = "sequence" /\ sched_log.kind = "recover") => sched_since >= sched_cfg.timeout

\* a recovery has run to its end, airplane toggling on
RecoveredInFull ==
    /\ RecoveryDone
    /\ sched_cfg.toggle_airplane
    /\ sched_log.cmds = <<S_CFUN0, S_LteUnlock, S_NrUnlock, S_CFUN1>>
    /\ sched_since = 0

(***************************************************************************)
(* C33: the dial attempt of a tick without a valid IP.                     *)
(***************************************************************************)
\* AT+CGDCONT=1,"<PDP>","auto" for the three PDP types
CgdcontForms ==
    {D_CGDCONT \o <<"\"">> \o pdp \o <<"\"", ",", "\"", "a", "u", "t", "o", "\"">> :
        pdp \in {T_IP, T_IPV6, T_IPV4V6}}

\* the commands of a dial attempt
DialForms ==
    {<<first, D_QNETDEVCTL, D_CGACT11, D_CGACT10>> : first \in CgdcontForms}

\* the commands of a log that are commands of a dial attempt
DialSubmitted ==
    {i \in 1..Len(dial_log) :
        dial_log[i] \in CgdcontForms \cup {D_QNETDEVCTL, D_CGACT11, D_CGACT10}}

\* check_ip_status returns Ok with this data
TickReports(data) == DialTick(FALSE, data)

\* C33: a tick on which AT+CGPADDR reports no valid IP leaves is_connected
\* false and starts a dial attempt, whatever is_connected was; the attempt
\* submits AT+CGDCONT=1,"<PDP>","auto" with PDP one of IP, IPV6, IPV4V6, then
\* AT+QNETDEVCTL=1,1,1, AT+CGACT=1,1, AT+CGACT=1,0, each whatever the one
\* before returned; a tick that finds a valid IP starts no attempt.
C33_DialOnEveryTickWithoutIp ==
    [][/\ \A data \in CgpaddrData : TickReports(data) =>
             IF has_ip(data)
             THEN dial_pc' # "dial"
             ELSE ~is_connected' /\ dial_pc' = "dial" /\ dial_log' = << >>
       /\ \A outcome \in Outcomes : (dial_pc = "dial" /\ DialCommand(outcome)) =>
             /\ ~is_connected'
             /\ Len(dial_log') = Len(dial_log) + 1
             /\ \E form \in DialForms : IsPrefix(dial_log', form)
             /\ dial_pc' = IF Len(dial_log') = 4 THEN "sleep" ELSE "dial"
       /\ dial_tick'.ip => DialSubmitted' = {}]_vars

\* C33, witness: a tick lost the IP (is_connected was true), and the dial
\* attempt has submitted its four commands, the PDP type of the
\* configuration (ppp) normalized to IP
C33_Witness ==
    /\ dial_pc = "sleep"
    /\ dial_tick = [ip |-> FALSE, was |-> TRUE]
    /\ ~is_connected
    /\ dial_pdp = <<"p", "p", "p">>
    /\ dial_log = <<D_CGDCONT \o <<"\"", "I", "P", "\"", ",", "\"", "a", "u", "t", "o", "\"">>,
                    D_QNETDEVCTL, D_CGACT11, D_CGACT10>>

(***************************************************************************)
(* C37: a tick of the dial supervisor whose AT+CGPADDR transaction fails.  *)
(***************************************************************************)
\* the AT+CGPADDR transaction of the tick failed: send_command returned Err
\* (the one-shot dropped), or a response of ATResponse::error (an error
\* line, a timeout), which has no data
CheckFailed(dropped, data) == dropped \/ data = << >>

\* C37: is_connected becomes false only on a tick whose AT+CGPADDR output was
\* obtained and has no valid address; a tick whose AT+CGPADDR transaction
\* fails leaves is_connected as it was and starts no dial attempt (so that
\* the next tick with a valid IP finds no rising edge to set up again).
C37_FailedCheckChangesNothing ==
    [][\A dropped \in BOOLEAN, data \in CgpaddrData :
          (DialTick(dropped, data) /\ CheckFailed(dropped, data)) =>
              /\ is_connected' = is_connected
              /\ dial_pc' = "sleep"]_vars

(***************************************************************************)
(* C38: the parts a notified concatenated SMS is made of.                  *)
(***************************************************************************)
\* C38: a call of process_sms with a fragment emits a notification only when
\* every part number 1..N of the fragment's group is present once the
\* fragment is in, and the content notified is the text of the N parts;
\* this for fragments with part number 0 or beyond N and for fragments that
\* repeat a part number as for any other.
C38_NotifiedOnlyWhenAllPresent ==
    [][\A sms \in SmsPool : (Processes(sms) /\ sms_out' # << >>) =>
          LET group == GroupAfter(sms)
          IN  /\ AllPresent(group)
              /\ sms_out' = <<Notification(sms.sender, push_parts(group.parts, 1, group.count))>>]_vars

\* a notification was emitted for a group of two in which part 2 never came:
\* parts 0 and 1 made up the count
NotifiedWithPartMissing ==
    /\ sms_last = <<Fragment(Sender5, Ref, MaxPart - 1, 0, "a")>>
    /\ sms_out = <<Notification(Sender5, PartText("a", 1))>>

(***************************************************************************)
(* C39: the last-applied mode after a recovery.                            *)
(***************************************************************************)
\* the tick starts set_frequency_lock or the unlock of a mode change
ModeSequenceStarts == SchedTick /\ sched_log'.kind \in {"apply", "unlock"}

\* C39: when a recovery has returned, the last-applied mode (current_mode)
\* equals the target mode of the tick, so that a later tick runs
\* set_frequency_lock only when its target differs from this one.
C39_RecoveryKeepsAppliedMode == RecoveryDone => sched_current = sched_target

\* a tick starts the sequence of a mode change only when its target differs
\* from the last-applied mode, which no recovery changes
C39_LockOnlyOnModeChange ==
    [][/\ ModeSequenceStarts => sched_target' # sched_current
       /\ (sched_log.kind = "recover" /\ sched_log'.kind = "recover") =>
             sched_current' = sched_current]_vars

(***************************************************************************)
(* C34: unsolicited lines whose bytes arrive in more than one read.        *)
(***************************************************************************)
\* the bytes of a buffer that the modem sent unsolicited
Unsolicited(b) == {i \in 1..Len(b) : b[i].t = 0}

\* the step is the buffer.clear() of send_command_and_wait
ClearsBuffer == pc = "Send" /\ pc' # "Send"

\* the step takes a line out of the buffer
TakesLine == pc \in {"IdleLines", "DrainLines", "AwaitLines"} /\ buffer' # buffer

\* the line starts with the expected prefix of the command in flight
StartsWithExpected(line) ==
    /\ pc = "AwaitLines"
    /\ expected_prefix(calls[cur].cmd) # << >>
    /\ StartsWith(line, expected_prefix(calls[cur].cmd))

\* a URC line the modem sent unsolicited, taken from the buffer while idle,
\* in a pre-drain or in a transaction whose expected prefix it does not start
\* with, is handed to the URC channel once
UrcLineHandedOnce ==
    TakesLine =>
        LET e == extract_next_line(buffer)
        IN  /\ buffer' = e.rest
            /\ (e.src = {0} /\ is_urc(e.line) /\ ~StartsWithExpected(e.line)) =>
                  /\ framed' = framed + 1
                  /\ urc_q' = Append(urc_q, [line |-> e.line, id |-> framed + 1])

\* C34 as stated: every URC line the modem emits in full that does not start
\* with the expected prefix of the command in flight is handed to the URC
\* channel exactly once, however its bytes are split across reads; no byte of
\* an unsolicited line is lost when a command is submitted while only a part
\* of the line has been received.
C34_NoUrcLost ==
    [][UrcLineHandedOnce /\ (ClearsBuffer => Unsolicited(buffer) = {})]_vars

\* C34, amended: the same for every line that is taken from the buffer; the
\* buffer.clear() that follows the pre-drain discards no complete line, only
\* the bytes of a line whose LF has not been received.
C34_NoUrcLostButPartial ==
    [][UrcLineHandedOnce /\ (ClearsBuffer => ~HasLF(buffer))]_vars

\* C34, witness: a RING that the modem sent in two parts was diverted to the
\* URC channel in the transaction of a command
C34_Witness ==
    /\ budget.split
    /\ urcs = 1
    /\ urc_part = << >>
    /\ framed = 1
    /\ last.id # 0
    /\ last.diverted = 1

\* the first part of a RING is in the buffer when the command is about to be
\* written: buffer.clear() discards it
PartialUrcCleared ==
    /\ pc = "Send"
    /\ Chars(buffer) = SubSeq(T_RING, 1, PartLen)
    /\ urc_part # << >>

(***************************************************************************)
(* C35: a final error line that a URC predicate accepts.                   *)
(***************************************************************************)
\* the step takes line l in the await loop of a command whose expected
\* prefix the line does not start with
AwaitTakes(l) ==
    /\ pc = "AwaitLines"
    /\ buffer' # buffer
    /\ extract_next_line(buffer).line = l
    /\ ~StartsWithExpected(l)

\* the transaction of the step's command ends in the step, with a failure
FailsWith(err) ==
    /\ cur' = 0
    /\ last'.id = cur
    /\ last'.via = "error"
    /\ last'.resp = <<ATResponse_error(err)>>

\* C35 as stated: the line +CMS ERROR: 322, received in answer to a command
\* in flight whose expected prefix it does not start with (AT+CMGR=5), ends
\* the command: the caller receives a failure that carries the line.
C35_UrcShapedErrorEndsCommand ==
    [][AwaitTakes(T_CMS322) => FailsWith(response_data.text \o T_CMS322)]_vars

\* C35, amended: that line is diverted to the URC channel and left out of the
\* transaction, which goes on and, nothing else arriving, ends with the
\* Timeout failure; an error line that no URC predicate accepts
\* (+CME ERROR: 50) ends the command with a failure that carries it.
C35_UrcShapedErrorDiverted ==
    [][/\ AwaitTakes(T_CMS322) =>
             /\ cur' = cur
             /\ last' = last
             /\ framed' = framed + 1
             /\ urc_q' = Append(urc_q, [line |-> T_CMS322, id |-> framed + 1])
             /\ response_data'.text = response_data.text
       /\ AwaitTakes(T_CME) => FailsWith(response_data.text \o T_CME)
       /\ (last'.cmd = C_CMGR5 /\ last'.diverted > 0) =>
             last'.resp = <<ATResponse_error(T_Timeout)>>]_vars

\* C35, witness: AT+CMGR=5 was answered +CMS ERROR: 322; the line went to the
\* URC channel and the caller got Timeout
C35_Witness ==
    /\ last.cmd = C_CMGR5
    /\ last.diverted = 1
    /\ framed = 1
    /\ last.via = "timeout"
    /\ last.resp = <<ATResponse_error(T_Timeout)>>

(***************************************************************************)
(* C36: commands submitted while the transport is disconnected.            *)
(***************************************************************************)
\* the calls that entered the intake while the actor was in its connect loop
Held == {i \in 1..Len(calls) : calls[i].held}

\* the calls in the intake
InIntake == {rx[k] : k \in 1..Len(rx)}

\* the transaction that ended last was that of a held call
HeldEnded == last.id \in Held

\* C36: a command submitted while the transport is disconnected is accepted
\* into the intake and stays there while the actor is in its connect loop;
\* once connected the actor serves the queued commands oldest first, and a
\* held command whose transaction has ended has received a response.
C36_HeldCommandsServed ==
    /\ \A i \in Held : pc = "Disconnected" => (i \in InIntake \/ calls[i].st = "ended")
    /\ \A i \in Held : i \in InIntake <=> calls[i].st = "queued"
    /\ \A i \in Held, j \in 1..Len(calls) : (j < i /\ calls[i].st # "queued") => calls[j].st # "queued"
    /\ HeldEnded => Len(last.resp) = 1

\* the same but for the response: a held command is neither rejected nor
\* dropped from the intake, and is taken in its turn
C36_HeldCommandsTakenInOrder ==
    /\ \A i \in Held : pc = "Disconnected" => (i \in InIntake \/ calls[i].st = "ended")
    /\ \A i \in Held : i \in InIntake <=> calls[i].st = "queued"
    /\ \A i \in Held, j \in 1..Len(calls) : (j < i /\ calls[i].st # "queued") => calls[j].st # "queued"

\* two commands were submitted before the first connect, and the second has
\* been answered after the first
HeldServedInOrder ==
    /\ Held = {1, 2}
    /\ last.id = 2
    /\ last.via = "ok"
    /\ calls[1].st = "ended"

(***************************************************************************)
(* C40: the schedule controller and the dial supervisor on one             *)
(* multiplexer.  Each of them submits a command and awaits its response    *)
(* before it goes on (schedule::send_command, ATClient::send_command), and *)
(* the multiplexer serves one command at a time, so a step of either is    *)
(* one command executed on the modem.  The modem has an IP address except  *)
(* between an AT+CFUN=0 and the AT+CFUN=1 that follows it.                 *)
(***************************************************************************)
\* the controller's AT+CFUN=0 has been executed and its AT+CFUN=1 has not
ModemAirplane ==
    /\ sched_pc = "sequence"
    /\ sched_log.cmds # << >>
    /\ sched_log.cmds[1] = S_CFUN0

\* the same within the sequence of a mode switch
SwitchInterval == ModemAirplane /\ sched_log.kind \in {"apply", "unlock"}

\* what the modem answers to AT+CGPADDR with an address and without one
WithIp == {data \in CgpaddrData : has_ip(data)}
WithoutIp == CgpaddrData \ WithIp

\* the times of day of the ticks: a night and a day
MixTimes == {0, 720}

\* the schedule controller's steps
MixSched ==
    \/ SchedTick
    \/ \E outcome \in Outcomes : SchedCommand(outcome)
    \/ \E dropped \in BOOLEAN, data \in CregData : SchedCreg(dropped, data)
    \/ \E dropped \in BOOLEAN, data \in CeregData : SchedCereg(dropped, data)
    \/ \E t \in MixTimes : SchedSleep(t)

\* the dial supervisor's steps, AT+CGPADDR answered by the modem as it is
MixDial ==
    \/ \E dropped \in BOOLEAN, data \in (IF ModemAirplane THEN WithoutIp ELSE WithIp) :
         DialTick(dropped, data)
    \/ \E outcome \in Outcomes : DialCommand(outcome)
    \/ \E ok \in BOOLEAN : DialSetup(ok)
    \/ DialSleep

MixNext == MixSched \/ MixDial

MixInit ==
    MuxStart(NoRun) /\ SmsStart /\ SchedStart(BaseConfig) /\ DialStart(T_ipv4v6) /\ GwStart(<< >>)
    /\ PureStart

MixSpec == MixInit /\ [][MixNext]_vars

\* the step is a tick of the dial supervisor whose AT+CGPADDR was answered:
\* the tick goes on to the setup or to a dial attempt, or has found the IP
DialChecks ==
    /\ dial_pc = "tick"
    /\ dial_pc' \in {"urcsetup", "dial"} \/ (dial_pc' = "sleep" /\ dial_tick'.ip)

\* the step executes a command of the dial supervisor on the modem
DialExecutes ==
    \/ DialChecks
    \/ dial_pc \in {"urcsetup", "dial"} /\ dial_log' # dial_log

\* the commands the sequence of the tick has submitted are the first ones of
\* its sequence, in order
SequenceInOrder ==
    sched_log.kind # "none" =>
        IsPrefix(sched_log.cmds,
                 IF sched_log.kind = "apply" THEN Policy(sched_cfg, sched_log.mode[1])
                 ELSE Unlock(sched_cfg))

====
